---- MODULE Spec2Model ----
(***************************************************************************)
(* Provider adapters of llm-philosophy: the SSE event parsers, the stream  *)
(* reconstructors and the output/usage extractors.                         *)
(*                                                                         *)
(* A Python dict is a function whose domain is the set of keys present;    *)
(* d.get(k) is None exactly when k is not in DOMAIN d.  A Python str is a  *)
(* TLA+ string; a Python list is a sequence.                               *)
(***************************************************************************)
EXTENDS Integers, Sequences, FiniteSets, TLC

VARIABLES
    provider,          \* the adapter whose send call is running
    pc,                \* position of the send call: "stream", "exhausted", "done", "raised"
    events,            \* the events the send call has received, in arrival order
    response_payload,  \* the payload the send call returns
    output_text,       \* the text extracted from the returned payload
    streamed_chunks,   \* the runner's list, filled by stream_text_callback
    content_chunks,    \* Fireworks send call: the content deltas captured
    reasoning_chunks,  \* Fireworks send call: the reasoning deltas captured
    summary_chunks,    \* OpenAI send call: summary_index -> list of summary deltas
    summary_done,      \* OpenAI send call: the done texts of the summary parts
    wire,              \* SSE parser: the lines readline() has returned
    data_lines,        \* SSE parser: the pending data: values
    event_type,        \* SSE parser (Anthropic): the pending event: value
    error,             \* the message of the RuntimeError raised, if any
    args,              \* the keyword arguments of the call under way
    result,            \* what the call returned or raised
    effects,           \* the requests recorded and sent, in order
    runs,              \* batch: the position of the run of each spec
    results,           \* batch: the ModelRunResults collected so far
    files              \* the JSONL files of the response store: path -> text written

sendVars == <<provider, pc, events, response_payload, output_text>>
chunkVars == <<streamed_chunks, content_chunks, reasoning_chunks>>
summaryVars == <<summary_chunks, summary_done>>
parserVars == <<wire, data_lines, event_type, error>>
callVars == <<args, result, effects>>
batchVars == <<runs, results, files>>
vars == <<sendVars, chunkVars, summaryVars, parserVars, callVars, batchVars>>

\* ---------------------------------------------------------------- bounds

\* The longest event stream an Anthropic send call receives.
MaxEvents == 4

\* The longest chunk stream a Grok or Fireworks send call receives.
MaxChunks == 3

\* The longest event stream an OpenAI send call receives.
MaxResponseEvents == 3

\* The most lines an SSE parser reads before the stream closes.
MaxLines == 3

\* The longest list (output items, content parts, blocks, choices) of a payload
\* handed to an extractor.
MaxParts == 2

\* The largest token count of a usage figure.
MaxTokens == 3

\* The largest max_output_tokens passed explicitly to a request builder.
MaxCeiling == 3

\* The longest stream of a send call whose callbacks and debug sink are followed.
MaxObserved == 3

\* the longest list of model specs handed to run_batch
MaxSpecs == 3

\* ---------------------------------------------------------------- dicts

EmptyDict == <<>>

Has(d, k) == k \in DOMAIN d

\* d[k] = v  (Python item assignment on a dict)
Put(d, k, v) == [x \in DOMAIN d \cup {k} |-> IF x = k THEN v ELSE d[x]]

\* the None of an optional str
None == "None"

\* the None of an optional TokenBreakdown
NoBreakdown == [none |-> TRUE]

RECURSIVE Join(_)
\* "".join(chunks)
Join(chunks) == IF chunks = <<>> THEN "" ELSE Head(chunks) \o Join(Tail(chunks))

RECURSIVE JoinWith(_, _)
\* sep.join(chunks)
JoinWith(sep, chunks) ==
    IF chunks = <<>> THEN ""
    ELSE IF Len(chunks) = 1 THEN Head(chunks)
    ELSE Head(chunks) \o sep \o JoinWith(sep, Tail(chunks))

RECURSIVE SortedKeys(_)
\* sorted(d.keys()) for integer keys, given the key set
SortedKeys(S) ==
    IF S = {} THEN <<>>
    ELSE LET m == CHOOSE x \in S : \A y \in S : x <= y
         IN <<m>> \o SortedKeys(S \ {m})

\* ------------------------------------------------- Anthropic reconstruction

\* The mutant of _update_content_block: a delta replaces the running text.
UpdateContentBlockReplacing(block, delta) ==
    IF delta.type = "text_delta" /\ Has(delta, "text")
    THEN Put(block, "text", delta.text)
    ELSE IF delta.type = "thinking_delta" /\ Has(delta, "thinking")
    THEN Put(block, "thinking", delta.thinking)
    ELSE block

\* _update_content_block(block, delta): the block after the delta
UpdateContentBlock(block, delta) ==
    IF delta.type = "text_delta"
    THEN IF Has(delta, "text")
         THEN Put(block, "text",
                  IF Has(block, "text") THEN block.text \o delta.text
                  ELSE delta.text)
         ELSE block
    ELSE IF delta.type = "thinking_delta"
    THEN IF Has(delta, "thinking")
         THEN Put(block, "thinking",
                  IF Has(block, "thinking") THEN block.thinking \o delta.thinking
                  ELSE delta.thinking)
         ELSE block
    ELSE IF delta.type = "signature_delta"
    THEN IF Has(delta, "signature")
         THEN Put(block, "signature", delta.signature)
         ELSE block
    ELSE block

\* event.get("event") or data_payload.get("type")
AnthropicEventType(event) ==
    IF event.event # None /\ event.event # ""
    THEN event.event
    ELSE IF Has(event.data, "type") THEN event.data.type ELSE None

\* One iteration of the loop of _reconstruct_stream_payload: the pair
\* (response_payload, content_blocks) after the event.
AnthropicStep(st, event) ==
    LET data_payload == event.data
        etype == AnthropicEventType(event)
    IN  IF etype = "message_start"
        THEN IF Has(data_payload, "message")
             THEN [st EXCEPT !.response_payload = data_payload.message]
             ELSE st
        ELSE IF etype = "content_block_start"
        THEN IF Has(data_payload, "index") /\ Has(data_payload, "content_block")
             THEN [st EXCEPT !.content_blocks =
                      Put(@, data_payload.index, data_payload.content_block)]
             ELSE st
        ELSE IF etype = "content_block_delta"
        THEN IF ~Has(data_payload, "index") \/ ~Has(data_payload, "delta")
             THEN st
             ELSE LET index == data_payload.index
                      delta == data_payload.delta
                      block == IF Has(st.content_blocks, index)
                               THEN st.content_blocks[index]
                               ELSE [type |-> delta.type]
                  IN [st EXCEPT !.content_blocks =
                         Put(@, index, UpdateContentBlock(block, delta))]
        ELSE IF etype = "message_delta"
        THEN LET delta == IF Has(data_payload, "delta")
                          THEN data_payload.delta ELSE EmptyDict
                 p1 == IF Has(delta, "stop_reason")
                       THEN Put(st.response_payload, "stop_reason", delta.stop_reason)
                       ELSE st.response_payload
                 p2 == IF Has(data_payload, "usage")
                       THEN Put(p1, "usage", data_payload.usage)
                       ELSE p1
             IN [st EXCEPT !.response_payload = p2]
        ELSE st

RECURSIVE AnthropicFold(_, _)
AnthropicFold(st, evs) ==
    IF evs = <<>> THEN st
    ELSE AnthropicFold(AnthropicStep(st, Head(evs)), Tail(evs))

\* The mutant of the final emission: the blocks by descending index.
AnthropicContentDescending(content_blocks) ==
    LET keys == SortedKeys(DOMAIN content_blocks)
    IN [i \in 1..Len(keys) |-> content_blocks[keys[Len(keys) + 1 - i]]]

\* [content_blocks[index] for index in sorted(content_blocks.keys())]
AnthropicContent(content_blocks) ==
    LET keys == SortedKeys(DOMAIN content_blocks)
    IN [i \in 1..Len(keys) |-> content_blocks[keys[i]]]

\* _reconstruct_stream_payload(events)
AnthropicReconstruct(evs) ==
    LET st == AnthropicFold([response_payload |-> EmptyDict,
                             content_blocks |-> EmptyDict], evs)
    IN IF DOMAIN st.content_blocks # {}
       THEN Put(st.response_payload, "content", AnthropicContent(st.content_blocks))
       ELSE st.response_payload

RECURSIVE AnthropicTextChunks(_)
\* _extract_text_blocks(payload), given payload["content"]
AnthropicTextChunks(content) ==
    IF content = <<>> THEN <<>>
    ELSE LET block == Head(content)
         IN (IF Has(block, "type") /\ block.type = "text" /\ Has(block, "text")
             THEN <<block.text>> ELSE <<>>)
            \o AnthropicTextChunks(Tail(content))

\* extract_output_text(payload) of the Anthropic adapter
AnthropicExtractOutputText(payload) ==
    IF Has(payload, "content") THEN Join(AnthropicTextChunks(payload.content)) ELSE ""

\* extract_usage_breakdown(payload) of the Anthropic adapter: a TokenBreakdown
\* whose None fields are left out of the record.
AnthropicExtractUsageBreakdown(payload) ==
    IF ~Has(payload, "usage") THEN NoBreakdown
    ELSE LET usage == payload.usage
             cc == IF Has(usage, "cache_creation_input_tokens")
                   THEN usage.cache_creation_input_tokens ELSE 0
             cr == IF Has(usage, "cache_read_input_tokens")
                   THEN usage.cache_read_input_tokens ELSE 0
             t1 == IF Has(usage, "input_tokens")
                   THEN Put(EmptyDict, "input_tokens", usage.input_tokens + cc + cr)
                   ELSE EmptyDict
         IN IF Has(usage, "output_tokens")
            THEN Put(t1, "output_tokens", usage.output_tokens)
            ELSE t1

\* ---------------------------------------------------- Anthropic event streams

BlockIndices == {0, 1}

MessageStartUsage ==
    [input_tokens |-> 3, cache_read_input_tokens |-> 2, output_tokens |-> 1]

\* The events a stream is drawn from: a message_start with its usage, block
\* starts (an empty text block and an empty thinking block; for index 0 also a
\* text block that starts with text), text and thinking deltas (for index 0
\* also the empty delta), and a message_delta whose event: line is missing.
AnthropicEvents ==
    {[event |-> "message_start",
      data |-> [type |-> "message_start",
                message |-> [id |-> "msg_1", role |-> "assistant",
                             content |-> <<>>,
                             usage |-> MessageStartUsage]]]}
    \cup {[event |-> "content_block_start",
           data |-> [type |-> "content_block_start", index |-> i,
                     content_block |-> [type |-> "text", text |-> ""]]] :
            i \in BlockIndices}
    \cup {[event |-> "content_block_start",
           data |-> [type |-> "content_block_start", index |-> 0,
                     content_block |-> b]] :
            b \in {[type |-> "text", text |-> "s"],
                   [type |-> "thinking", thinking |-> ""]}}
    \cup {[event |-> "content_block_delta",
           data |-> [type |-> "content_block_delta", index |-> i, delta |-> d]] :
            i \in BlockIndices,
            d \in {[type |-> "text_delta", text |-> "a"],
                   [type |-> "text_delta", text |-> "b"],
                   [type |-> "thinking_delta", thinking |-> "t"]}}
    \cup {[event |-> "content_block_delta",
           data |-> [type |-> "content_block_delta", index |-> 0,
                     delta |-> [type |-> "text_delta", text |-> ""]]]}
    \cup {[event |-> None,
           data |-> [type |-> "message_delta",
                     delta |-> [stop_reason |-> "end_turn"],
                     usage |-> [output_tokens |-> 5]]]}

\* --------------------------------------------------- Anthropic send call

\* The parts of the state a send call does not use.
IdleChunks == streamed_chunks = <<>> /\ content_chunks = <<>> /\ reasoning_chunks = <<>>
IdleSummary == summary_chunks = EmptyDict /\ summary_done = <<>>
IdleParser == wire = <<>> /\ data_lines = <<>> /\ event_type = None /\ error = None
IdleCall == args = EmptyDict /\ result = EmptyDict /\ effects = <<>>
IdleBatch == runs = <<>> /\ results = <<>> /\ files = EmptyDict

InitAnthropic ==
    /\ provider = "anthropic"
    /\ pc = "stream"
    /\ events = <<>>
    /\ response_payload = EmptyDict
    /\ output_text = ""
    /\ IdleChunks /\ IdleSummary /\ IdleParser /\ IdleCall
    /\ IdleBatch

\* send_messages_request, one iteration of "for event in _iter_sse_events":
\* events.append(event)
AnthropicReceive ==
    /\ provider = "anthropic"
    /\ pc = "stream"
    /\ Len(events) < MaxEvents
    /\ \E event \in AnthropicEvents : events' = Append(events, event)
    /\ UNCHANGED <<provider, pc, response_payload, output_text>>
    /\ UNCHANGED <<chunkVars, summaryVars, parserVars, callVars>>
    /\ UNCHANGED batchVars

\* send_messages_request after the loop: reconstruct, extract, return
AnthropicReturn ==
    /\ provider = "anthropic"
    /\ pc = "stream"
    /\ response_payload' = AnthropicReconstruct(events)
    /\ output_text' = AnthropicExtractOutputText(response_payload')
    /\ pc' = "done"
    /\ UNCHANGED <<provider, events>>
    /\ UNCHANGED <<chunkVars, summaryVars, parserVars, callVars>>
    /\ UNCHANGED batchVars

NextAnthropic == AnthropicReceive \/ AnthropicReturn

SpecAnthropic == InitAnthropic /\ [][NextAnthropic]_vars

\* ------------------------------------- Grok and Fireworks reconstruction

\* payload.get("model") of the request
RequestModel == "m0"

MetadataFields == {"id", "created", "model", "system_fingerprint"}

\* The mutant of the metadata overwrite: the first value seen is kept.
ChatMetadataFirstWins(payload, event) ==
    LET keys == (DOMAIN event \cap (MetadataFields \cup {"usage"})) \ DOMAIN payload
    IN [k \in DOMAIN payload \cup keys |-> IF k \in keys THEN event[k] ELSE payload[k]]

\* The head of the loop body of _reconstruct_stream_payload (Grok, Fireworks):
\* the five "if ... in event" overwrites of response_payload.
ChatMetadata(payload, event) ==
    LET keys == DOMAIN event \cap (MetadataFields \cup {"usage"})
    IN [k \in DOMAIN payload \cup keys |-> IF k \in keys THEN event[k] ELSE payload[k]]

RECURSIVE ChatChoices(_, _, _)
\* "for choice in choices" of _reconstruct_stream_payload: the accumulators
\* after the choices of one event.  with_content is TRUE for Grok, whose
\* reconstructor collects the content itself.
ChatChoices(st, choices, with_content) ==
    IF choices = <<>> THEN st
    ELSE LET choice == Head(choices)
             delta == IF Has(choice, "delta") THEN choice.delta ELSE EmptyDict
             s1 == IF st.choice_index = {} /\ Has(choice, "index")
                   THEN [st EXCEPT !.choice_index = {choice.index}] ELSE st
             s2 == IF with_content /\ Has(delta, "content")
                   THEN [s1 EXCEPT !.chunks = Append(@, delta.content)] ELSE s1
             s3 == IF Has(delta, "role") THEN [s2 EXCEPT !.role = delta.role] ELSE s2
             s4 == IF Has(choice, "finish_reason") /\ choice.finish_reason # None
                   THEN [s3 EXCEPT !.finish_reason = choice.finish_reason] ELSE s3
         IN ChatChoices(s4, Tail(choices), with_content)

RECURSIVE ChatFold(_, _, _)
\* "for event in events" of _reconstruct_stream_payload
ChatFold(st, evs, with_content) ==
    IF evs = <<>> THEN st
    ELSE LET event == Head(evs)
             s1 == [st EXCEPT !.response_payload = ChatMetadata(@, event)]
             s2 == IF Has(event, "choices")
                   THEN ChatChoices(s1, event.choices, with_content) ELSE s1
         IN ChatFold(s2, Tail(evs), with_content)

\* The accumulators before the loop; choice_index is None as the empty set
\* and an int i as {i}.
ChatFoldInit ==
    [response_payload |-> EmptyDict, chunks |-> <<>>, finish_reason |-> None,
     choice_index |-> {}, role |-> "assistant"]

\* The tail of _reconstruct_stream_payload: model fallback, object, choices.
ChatAssemble(st, message) ==
    LET p1 == IF ~Has(st.response_payload, "model")
              THEN Put(st.response_payload, "model", RequestModel)
              ELSE st.response_payload
        p2 == Put(p1, "object", "chat.completion")
    IN Put(p2, "choices",
           <<[index |-> IF st.choice_index = {} THEN 0
                        ELSE CHOOSE i \in st.choice_index : TRUE,
              message |-> message,
              finish_reason |-> st.finish_reason]>>)

\* The mutant of the Grok reconstruction: the content is the last chunk alone.
GrokReconstructLastChunk(evs) ==
    LET st == ChatFold(ChatFoldInit, evs, TRUE)
    IN ChatAssemble(st, [role |-> st.role,
                         content |-> IF st.chunks = <<>> THEN ""
                                     ELSE st.chunks[Len(st.chunks)]])

\* _reconstruct_stream_payload(events, model=...) of the Grok adapter
GrokReconstruct(evs) ==
    LET st == ChatFold(ChatFoldInit, evs, TRUE)
    IN ChatAssemble(st, [role |-> st.role, content |-> Join(st.chunks)])

\* _reconstruct_stream_payload(events, content_chunks=..., reasoning_chunks=...,
\* model=...) of the Fireworks adapter
FireworksReconstruct(evs, content, reasoning) ==
    LET st == ChatFold(ChatFoldInit, evs, FALSE)
        message == [role |-> st.role, content |-> Join(content)]
    IN ChatAssemble(st, IF reasoning # <<>>
                        THEN Put(message, "reasoning_content", Join(reasoning))
                        ELSE message)

RECURSIVE ChatExtractFromChoices(_)
ChatExtractFromChoices(choices) ==
    IF choices = <<>> THEN ""
    ELSE LET choice == Head(choices)
         IN IF Has(choice, "message") /\ Has(choice.message, "content")
            THEN choice.message.content
            ELSE ChatExtractFromChoices(Tail(choices))

\* extract_output_text(payload) of the Grok and of the Fireworks adapter
ChatExtractOutputText(payload) ==
    IF Has(payload, "choices") THEN ChatExtractFromChoices(payload.choices) ELSE ""

RECURSIVE ChatDeltas(_, _, _)
\* The send loop's "for choice in choices": the strings of one delta field
\* handed to the callbacks for one event; Fireworks skips the empty string.
ChatDeltas(choices, field, skip_empty) ==
    IF choices = <<>> THEN <<>>
    ELSE LET choice == Head(choices)
         IN (IF /\ Has(choice, "delta")
                /\ Has(choice.delta, field)
                /\ ~(skip_empty /\ choice.delta[field] = "")
             THEN <<choice.delta[field]>> ELSE <<>>)
            \o ChatDeltas(Tail(choices), field, skip_empty)

\* ------------------------------------------------- chat-completion streams

ChunkHead == [id |-> "c1", created |-> 1, model |-> "m1"]

ContentChunk(delta, finish) ==
    [id |-> "c1", created |-> 1, model |-> "m1",
     choices |-> <<[index |-> 0, delta |-> delta, finish_reason |-> finish]>>]

Usage1 == [prompt_tokens |-> 3, completion_tokens |-> 1]
Usage2 == [prompt_tokens |-> 3, completion_tokens |-> 5]

\* The chunks a stream is drawn from: content chunks that carry the usual
\* head (id, created, model), chunks that end the choice, chunks that carry
\* one other value of a metadata field, and usage chunks.
ChatEvents ==
    {ContentChunk([content |-> "a"], None),
     ContentChunk([content |-> "b"], None),
     ContentChunk([role |-> "assistant", content |-> ""], None),
     ContentChunk([reasoning_content |-> "r"], None),
     ContentChunk(EmptyDict, "stop"),
     ContentChunk(EmptyDict, "length"),
     [id |-> "c2"], [created |-> 2], [model |-> "m2"],
     [system_fingerprint |-> "fp1"], [system_fingerprint |-> "fp2"],
     [usage |-> Usage1, choices |-> <<>>],
     [usage |-> Usage2, choices |-> <<>>]}

\* ------------------------------------------- Grok and Fireworks send calls

InitChat ==
    /\ provider \in {"grok", "fireworks"}
    /\ pc = "stream"
    /\ events = <<>>
    /\ response_payload = EmptyDict
    /\ output_text = ""
    /\ IdleChunks /\ IdleSummary /\ IdleParser /\ IdleCall
    /\ IdleBatch

\* send_chat_completion_request (Grok), one iteration of the event loop:
\* events.append(event), then stream_text_callback for every content string
GrokReceive ==
    /\ provider = "grok"
    /\ pc = "stream"
    /\ Len(events) < MaxChunks
    /\ \E event \in ChatEvents :
        /\ events' = Append(events, event)
        /\ streamed_chunks' = streamed_chunks
               \o (IF Has(event, "choices")
                   THEN ChatDeltas(event.choices, "content", FALSE) ELSE <<>>)
    /\ UNCHANGED <<provider, pc, response_payload, output_text>>
    /\ UNCHANGED <<content_chunks, reasoning_chunks, summaryVars, parserVars, callVars>>
    /\ UNCHANGED batchVars

\* send_chat_completion_request (Grok) after the loop
GrokReturn ==
    /\ provider = "grok"
    /\ pc = "stream"
    /\ response_payload' = GrokReconstruct(events)
    /\ output_text' = ChatExtractOutputText(response_payload')
    /\ pc' = "done"
    /\ UNCHANGED <<provider, events, chunkVars, summaryVars, parserVars, callVars>>
    /\ UNCHANGED batchVars

\* send_chat_completion_request (Fireworks), one iteration of the chunk loop:
\* events.append, reasoning and content captured and handed to the callbacks
FireworksReceive ==
    /\ provider = "fireworks"
    /\ pc = "stream"
    /\ Len(events) < MaxChunks
    /\ \E event \in ChatEvents :
        LET choices == IF Has(event, "choices") THEN event.choices ELSE <<>>
        IN /\ events' = Append(events, event)
           /\ reasoning_chunks' = reasoning_chunks
                  \o ChatDeltas(choices, "reasoning_content", TRUE)
           /\ content_chunks' = content_chunks \o ChatDeltas(choices, "content", TRUE)
           /\ streamed_chunks' = streamed_chunks \o ChatDeltas(choices, "content", TRUE)
    /\ UNCHANGED <<provider, pc, response_payload, output_text>>
    /\ UNCHANGED <<summaryVars, parserVars, callVars>>
    /\ UNCHANGED batchVars

\* send_chat_completion_request (Fireworks) after the loop
FireworksReturn ==
    /\ provider = "fireworks"
    /\ pc = "stream"
    /\ response_payload' = FireworksReconstruct(events, content_chunks, reasoning_chunks)
    /\ output_text' = ChatExtractOutputText(response_payload')
    /\ pc' = "done"
    /\ UNCHANGED <<provider, events, chunkVars, summaryVars, parserVars, callVars>>
    /\ UNCHANGED batchVars

NextChat == GrokReceive \/ GrokReturn \/ FireworksReceive \/ FireworksReturn

SpecChat == InitChat /\ [][NextChat]_vars

\* The streaming send calls of the three adapters whose extractor reads the
\* reconstructed payload: Anthropic, Grok and Fireworks.
InitExtractors == InitAnthropic \/ InitChat

NextExtractors == NextAnthropic \/ NextChat

SpecExtractors == InitExtractors /\ [][NextExtractors]_vars

\* ------------------------------------------------ OpenAI Responses stream

RECURSIVE OpenAIContentTexts(_)
\* "for part in content" of extract_output_text: the output_text parts
OpenAIContentTexts(content) ==
    IF content = <<>> THEN <<>>
    ELSE LET part == Head(content)
         IN (IF Has(part, "type") /\ part.type = "output_text" /\ Has(part, "text")
             THEN <<part.text>> ELSE <<>>)
            \o OpenAIContentTexts(Tail(content))

RECURSIVE OpenAIOutputTexts(_)
\* "for item in outputs" of extract_output_text: the texts of the message items
OpenAIOutputTexts(outputs) ==
    IF outputs = <<>> THEN <<>>
    ELSE LET item == Head(outputs)
         IN (IF Has(item, "type") /\ item.type = "message" /\ Has(item, "content")
             THEN OpenAIContentTexts(item.content) ELSE <<>>)
            \o OpenAIOutputTexts(Tail(outputs))

\* extract_output_text(payload) for a payload that is no stored stream
OpenAIExtractFromPayload(payload) ==
    IF Has(payload, "output_text") THEN payload.output_text
    ELSE IF Has(payload, "output")
    THEN JoinWith("\n", OpenAIOutputTexts(payload.output))
    ELSE ""

RECURSIVE OpenAIStreamFold(_, _)
\* The loop of _extract_output_text_from_stream: (chunks, response_payload)
OpenAIStreamFold(st, evs) ==
    IF evs = <<>> THEN st
    ELSE LET event == Head(evs)
             etype == IF Has(event, "type") THEN event.type ELSE None
             s1 == IF etype = "response.output_text.delta"
                   THEN IF Has(event, "delta")
                        THEN [st EXCEPT !.chunks = Append(@, event.delta)] ELSE st
                   ELSE IF etype \in {"response.output_text.done", "response.text.done"}
                   THEN IF st.chunks = <<>> /\ Has(event, "text")
                        THEN [st EXCEPT !.chunks = Append(@, event.text)] ELSE st
                   ELSE IF etype = "response.completed"
                   THEN IF Has(event, "response")
                        THEN [st EXCEPT !.response_payload = event.response] ELSE st
                   ELSE st
         IN OpenAIStreamFold(s1, Tail(evs))

\* _extract_output_text_from_stream(events)
OpenAIExtractFromStream(evs) ==
    LET st == OpenAIStreamFold([chunks |-> <<>>, response_payload |-> EmptyDict], evs)
    IN IF st.chunks # <<>> THEN Join(st.chunks)
       ELSE IF st.response_payload # EmptyDict
       THEN OpenAIExtractFromPayload(st.response_payload)
       ELSE ""

\* extract_output_text(payload)
OpenAIExtractOutputText(payload) ==
    IF Has(payload, "stream") /\ payload.stream = TRUE
    THEN OpenAIExtractFromStream(IF Has(payload, "events") THEN payload.events ELSE <<>>)
    ELSE OpenAIExtractFromPayload(payload)

\* A done_order entry (index, text); the index None is the empty set and an
\* int i is {i}.
DoneEntry(index, text) == [index |-> index, text |-> text]

DeltasOf(delta_chunks, i) == IF Has(delta_chunks, i) THEN delta_chunks[i] ELSE <<>>

RECURSIVE CoalesceDone(_, _, _)
\* The first loop of _coalesce_reasoning_summary_parts (src/providers): the
\* parts appended, each with the summary_index it stands for, and used_indices.
CoalesceDone(acc, done_order, delta_chunks) ==
    IF done_order = <<>> THEN acc
    ELSE LET entry == Head(done_order)
             index == entry.index
             deltas == IF index = {} THEN <<>>
                       ELSE DeltasOf(delta_chunks, CHOOSE i \in index : TRUE)
             a1 == IF entry.text # ""
                   THEN [parts |-> Append(acc.parts, entry),
                         used_indices |-> acc.used_indices \cup index]
                   ELSE IF index # {} /\ deltas # <<>>
                   THEN [parts |-> Append(acc.parts, DoneEntry(index, Join(deltas))),
                         used_indices |-> acc.used_indices \cup index]
                   ELSE acc
         IN CoalesceDone(a1, Tail(done_order), delta_chunks)

RECURSIVE CoalesceRest(_, _, _)
\* The second loop: the indices of delta_chunks not used, in sorted order.
CoalesceRest(parts, keys, delta_chunks) ==
    IF keys = <<>> THEN parts
    ELSE LET deltas == delta_chunks[Head(keys)]
         IN CoalesceRest(IF deltas # <<>>
                         THEN Append(parts, DoneEntry({Head(keys)}, Join(deltas)))
                         ELSE parts,
                         Tail(keys), delta_chunks)

\* _coalesce_reasoning_summary_parts(done_order=..., delta_chunks=...) of the
\* SDK adapter, each part with the summary_index it stands for.
CoalesceOrdered(done_order, delta_chunks) ==
    LET acc == CoalesceDone([parts |-> <<>>, used_indices |-> {}],
                            done_order, delta_chunks)
    IN CoalesceRest(acc.parts,
                    SortedKeys(DOMAIN delta_chunks \ acc.used_indices),
                    delta_chunks)

RECURSIVE CoalesceSorted(_, _, _)
\* _coalesce_reasoning_summary_parts(done_texts=..., delta_chunks=...) of the
\* urllib adapter, each part with the summary_index it stands for.
CoalesceSorted(keys, done_texts, delta_chunks) ==
    IF keys = <<>> THEN <<>>
    ELSE LET index == Head(keys)
             deltas == DeltasOf(delta_chunks, index)
         IN (IF Has(done_texts, index) /\ done_texts[index] # ""
             THEN <<DoneEntry({index}, done_texts[index])>>
             ELSE IF deltas # <<>>
             THEN <<DoneEntry({index}, Join(deltas))>>
             ELSE <<>>)
            \o CoalesceSorted(Tail(keys), done_texts, delta_chunks)

\* The list of parts an adapter coalesces from what its send call captured.
SummaryParts(p, done, chunks) ==
    IF p = "openai" THEN CoalesceOrdered(done, chunks)
    ELSE CoalesceSorted(SortedKeys(DOMAIN done \cup DOMAIN chunks), done, chunks)

PartTexts(parts) == [k \in 1..Len(parts) |-> parts[k].text]

\* extract_reasoning_summary_from_stream(stream_capture): None or the parts
\* joined by three newlines
ExtractReasoningSummary(p, done, chunks) ==
    LET parts == PartTexts(SummaryParts(p, done, chunks))
    IN IF parts = <<>> THEN None ELSE JoinWith("\n\n\n", parts)

RECURSIVE InjectSummary(_, _, _)
\* "for item in outputs" of the summary injection: the first reasoning item
\* gets the summary; keep_existing is the runner's "if existing_summary: break".
InjectSummary(outputs, text, keep_existing) ==
    IF outputs = <<>> THEN <<>>
    ELSE LET item == Head(outputs)
         IN IF Has(item, "type") /\ item.type = "reasoning"
            THEN IF keep_existing /\ Has(item, "summary") /\ item.summary # <<>>
                 THEN outputs
                 ELSE <<Put(item, "summary",
                            <<[type |-> "summary_text", text |-> text]>>)>>
                      \o Tail(outputs)
            ELSE <<item>> \o InjectSummary(Tail(outputs), text, keep_existing)

\* One iteration of the event loop of send_response_request: the captured
\* (summary_chunks, summary_done, response_payload) after the event.
OpenAIStep(p, st, event) ==
    LET etype == IF Has(event, "type") THEN event.type ELSE None
    IN IF etype = "response.reasoning_summary_text.delta"
       THEN IF Has(event, "delta") /\ Has(event, "summary_index")
            THEN [st EXCEPT !.summary_chunks =
                     Put(@, event.summary_index,
                         Append(DeltasOf(@, event.summary_index), event.delta))]
            ELSE st
       ELSE IF etype = "response.reasoning_summary_part.done"
       THEN IF ~Has(event, "part") \/ ~Has(event.part, "text") THEN st
            ELSE IF p = "openai"
            THEN [st EXCEPT !.summary_done =
                     Append(@, DoneEntry(IF Has(event, "summary_index")
                                         THEN {event.summary_index} ELSE {},
                                         event.part.text))]
            ELSE IF Has(event, "summary_index")
            THEN [st EXCEPT !.summary_done =
                     Put(@, event.summary_index, event.part.text)]
            ELSE st
       ELSE IF etype \in {"response.completed", "response.failed"}
       THEN IF Has(event, "response")
            THEN [st EXCEPT !.response_payload = event.response] ELSE st
       ELSE st

\* The text handed to stream_text_callback for one event, as a list.
OpenAITextDelta(event) ==
    IF Has(event, "type") /\ event.type = "response.output_text.delta"
       /\ Has(event, "delta")
    THEN <<event.delta>> ELSE <<>>

\* ---------------------------------------------------- OpenAI event streams

SummaryIndices == {0, 1}

\* The response object of a terminal event, declaring the text t.
ResponseObject(t) ==
    [id |-> "resp_1",
     output |-> <<[type |-> "reasoning", summary |-> <<>>],
                  [type |-> "message",
                   content |-> <<[type |-> "output_text", text |-> t]>>]>>]

SummaryDelta(i, d) ==
    [type |-> "response.reasoning_summary_text.delta", summary_index |-> i, delta |-> d]

PartDone(i, t) ==
    [type |-> "response.reasoning_summary_part.done", summary_index |-> i,
     part |-> [type |-> "summary_text", text |-> t]]

\* The events a stream is drawn from: text deltas, summary deltas and done
\* parts for two indices (a done part may be empty, may repeat its index with
\* another text, may lack its index), and completed events whose response
\* declares a text or the empty text.
OpenAIEvents ==
    {[type |-> "response.output_text.delta", delta |-> "a"],
     [type |-> "response.output_text.delta", delta |-> "b"],
     SummaryDelta(0, "x"), SummaryDelta(0, "y"), SummaryDelta(1, "x"),
     PartDone(0, "P"), PartDone(0, "Q"), PartDone(1, "P"), PartDone(0, ""),
     [type |-> "response.reasoning_summary_part.done",
      part |-> [type |-> "summary_text", text |-> "N"]],
     [type |-> "response.completed", response |-> ResponseObject("S")],
     [type |-> "response.completed", response |-> ResponseObject("")]}

\* ------------------------------------------------------ OpenAI send call

InitOpenAI ==
    /\ provider \in {"openai", "openai_urllib"}
    /\ pc = "stream"
    /\ events = <<>>
    /\ response_payload = EmptyDict
    /\ output_text = ""
    /\ IdleChunks /\ IdleParser /\ IdleCall
    /\ summary_chunks = EmptyDict
    /\ summary_done = <<>>
    /\ IdleBatch

\* send_response_request, one iteration of the event loop (the events list is
\* the log written to sse_event_path)
OpenAIReceive ==
    /\ provider \in {"openai", "openai_urllib"}
    /\ pc = "stream"
    /\ Len(events) < MaxResponseEvents
    /\ \E event \in OpenAIEvents :
        LET st == OpenAIStep(provider,
                             [summary_chunks |-> summary_chunks,
                              summary_done |-> summary_done,
                              response_payload |-> response_payload], event)
        IN /\ events' = Append(events, event)
           /\ streamed_chunks' = streamed_chunks \o OpenAITextDelta(event)
           /\ summary_chunks' = st.summary_chunks
           /\ summary_done' = st.summary_done
           /\ response_payload' = st.response_payload
    /\ UNCHANGED <<provider, pc, output_text>>
    /\ UNCHANGED <<content_chunks, reasoning_chunks, parserVars, callVars>>
    /\ UNCHANGED batchVars

\* send_response_request after the loop: stream_capture is filled and
\* "response_payload or {}" returned
OpenAIReturn ==
    /\ provider \in {"openai", "openai_urllib"}
    /\ pc = "stream"
    /\ pc' = "returned"
    /\ UNCHANGED <<provider, events, response_payload, output_text>>
    /\ UNCHANGED <<chunkVars, summaryVars, parserVars, callVars>>
    /\ UNCHANGED batchVars

\* The mutant of the runner's fallback: the streamed chunks are never used.
RunOutputTextNoFallback(text, chunks) == text

\* The runner's "if stream and streamed_chunks and not output_text:
\* output_text = "".join(streamed_chunks)", given the extracted text.
RunOutputText(text, chunks) ==
    IF chunks # <<>> /\ text = "" THEN Join(chunks) ELSE text

\* run_openai_puzzle after send_response_request (SDK adapter): the summary
\* is injected, the text extracted, the streamed chunks the fallback.
\* For the urllib adapter: inject_reasoning_summary_from_stream, then
\* extract_output_text as create_response does.
OpenAIFinish ==
    /\ provider \in {"openai", "openai_urllib"}
    /\ pc = "returned"
    /\ LET summary == ExtractReasoningSummary(provider, summary_done, summary_chunks)
           payload == IF summary # None /\ summary # "" /\ Has(response_payload, "output")
                      THEN Put(response_payload, "output",
                               InjectSummary(response_payload.output, summary,
                                             provider = "openai"))
                      ELSE response_payload
           text == OpenAIExtractOutputText(payload)
       IN /\ response_payload' = payload
          /\ output_text' = IF provider = "openai"
                            THEN RunOutputText(text, streamed_chunks) ELSE text
    /\ pc' = "done"
    /\ UNCHANGED <<provider, events>>
    /\ UNCHANGED <<chunkVars, summaryVars, parserVars, callVars>>
    /\ UNCHANGED batchVars

\* extract_output_text on the stored stream {"stream": true, "events": [...]}
OpenAIExtractStored ==
    /\ provider \in {"openai", "openai_urllib"}
    /\ pc = "returned"
    /\ output_text' = OpenAIExtractOutputText([stream |-> TRUE, events |-> events])
    /\ pc' = "extracted"
    /\ UNCHANGED <<provider, events, response_payload>>
    /\ UNCHANGED <<chunkVars, summaryVars, parserVars, callVars>>
    /\ UNCHANGED batchVars

NextOpenAI == OpenAIReceive \/ OpenAIReturn \/ OpenAIFinish \/ OpenAIExtractStored

SpecOpenAI == InitOpenAI /\ [][NextOpenAI]_vars

\* ------------------------------------------------------------ SSE parsers

\* A line as readline() returns it is a sequence of tokens: the field name
\* with its colon, spaces, the value, and the line end; b"" (end of stream)
\* is the empty sequence.

RECURSIVE Rstrip(_)
\* line.rstrip("\r\n")
Rstrip(line) ==
    IF line # <<>> /\ line[Len(line)] \in {"\r", "\n"}
    THEN Rstrip(SubSeq(line, 1, Len(line) - 1)) ELSE line

RECURSIVE Lstrip(_)
\* value.lstrip()
Lstrip(tokens) ==
    IF tokens # <<>> /\ Head(tokens) = " " THEN Lstrip(Tail(tokens)) ELSE tokens

\* line.startswith(prefix)
StartsWith(line, prefix) == line # <<>> /\ Head(line) = prefix

\* line[len(prefix):].lstrip(), as a str
FieldValue(line) == Join(Lstrip(Tail(line)))

DocId == "{\"id\":\"c2\"}"
DocCompleted == "{\"type\":\"response.completed\",\"response\":{\"id\":\"resp_2\"}}"
DocIdHead == "{\"id\":"
DocIdTail == "\"c2\"}"
DocList == "[1]"
DocBroken == "{not json"
Sentinel == "[DONE]"

\* json.loads(data) on the documents of the wire: the parsed value, whether
\* it is a dict, or the JSONDecodeError.
JsonLoads(data) ==
    IF data \in {DocId, DocIdHead \o "\n" \o DocIdTail}
    THEN [valid |-> TRUE, is_dict |-> TRUE, value |-> [id |-> "c2"]]
    ELSE IF data = DocCompleted
    THEN [valid |-> TRUE, is_dict |-> TRUE,
          value |-> [type |-> "response.completed", response |-> [id |-> "resp_2"]]]
    ELSE IF data = DocList
    THEN [valid |-> TRUE, is_dict |-> FALSE, value |-> data]
    ELSE [valid |-> FALSE, is_dict |-> FALSE, value |-> data]

ProviderName(p) ==
    IF p = "grok" THEN "Grok" ELSE IF p = "anthropic" THEN "Anthropic" ELSE "OpenAI"

\* What a parse gives the generator: the events to yield, or the error raised.
Parsed(value) == [raised |-> FALSE, out |-> <<value>>, error |-> None]
Raised(message) == [raised |-> TRUE, out |-> <<>>, error |-> message]

\* The mutant of _parse_sse_data: a data field that is no JSON is skipped.
ParseSSEDataSkipping(p, data) ==
    LET parsed == JsonLoads(data)
    IN IF ~parsed.valid THEN [raised |-> FALSE, out |-> <<>>, error |-> None]
       ELSE IF ~parsed.is_dict
       THEN Raised("Unexpected " \o ProviderName(p) \o " stream event payload: "
                   \o parsed.value)
       ELSE Parsed(parsed.value)

\* _parse_sse_data(data) of the Grok and of the urllib OpenAI adapter
ParseSSEData(p, data) ==
    LET parsed == JsonLoads(data)
    IN IF ~parsed.valid
       THEN Raised("Failed to parse " \o ProviderName(p) \o " stream event: " \o data)
       ELSE IF ~parsed.is_dict
       THEN Raised("Unexpected " \o ProviderName(p) \o " stream event payload: "
                   \o parsed.value)
       ELSE Parsed(parsed.value)

\* _parse_sse_event(event_type, data_lines) of the Anthropic adapter
ParseSSEEvent(etype, lines) ==
    LET data == JoinWith("\n", lines)
        parsed == JsonLoads(data)
    IN IF data = Sentinel THEN Parsed([event |-> etype, data |-> [type |-> "done"]])
       ELSE IF ~parsed.valid
       THEN Raised("Failed to parse Anthropic stream event: " \o data)
       ELSE IF ~parsed.is_dict
       THEN Raised("Unexpected Anthropic stream event payload: " \o parsed.value)
       ELSE Parsed([event |-> etype, data |-> parsed.value])

\* The generator after one iteration of "while True": its locals, what it
\* yielded, and whether it goes on ("reading"), ended ("exhausted") or raised.
IterResult(status, lines, etype, parse) ==
    [status |-> IF parse.raised THEN "raised" ELSE status,
     data_lines |-> lines, event_type |-> etype,
     out |-> parse.out, error |-> parse.error]

Nothing == [raised |-> FALSE, out |-> <<>>, error |-> None]

\* "if data_lines:" of the Grok / urllib OpenAI generator: join, reset, stop
\* at the sentinel, else yield the parsed data
ChatFlush(p, lines, status) ==
    IF lines = <<>> THEN IterResult(status, <<>>, None, Nothing)
    ELSE LET data == JoinWith("\n", lines)
         IN IF data = Sentinel THEN IterResult("exhausted", <<>>, None, Nothing)
            ELSE IterResult(status, <<>>, None, ParseSSEData(p, data))

\* The mutant of the Grok / urllib OpenAI generator: at the end of the stream
\* it stops without looking at the pending data lines.
ChatIterStepDroppingPending(p, lines, line_bytes) ==
    IF line_bytes = <<>> THEN IterResult("exhausted", <<>>, None, Nothing)
    ELSE LET line == Rstrip(line_bytes)
         IN IF line = <<>> THEN ChatFlush(p, lines, "reading")
            ELSE IF StartsWith(line, ":") THEN IterResult("reading", lines, None, Nothing)
            ELSE IF StartsWith(line, "data:")
            THEN IterResult("reading", Append(lines, FieldValue(line)), None, Nothing)
            ELSE IterResult("reading", lines, None, Nothing)

\* One iteration of _iter_sse_events of the Grok and urllib OpenAI adapters
ChatIterStep(p, lines, line_bytes) ==
    IF line_bytes = <<>> THEN ChatFlush(p, lines, "exhausted")
    ELSE LET line == Rstrip(line_bytes)
         IN IF line = <<>> THEN ChatFlush(p, lines, "reading")
            ELSE IF StartsWith(line, ":") THEN IterResult("reading", lines, None, Nothing)
            ELSE IF StartsWith(line, "data:")
            THEN IterResult("reading", Append(lines, FieldValue(line)), None, Nothing)
            ELSE IterResult("reading", lines, None, Nothing)

\* line[len("event:"):].strip() or None
EventValue(line) ==
    LET value == Join(Rstrip(Lstrip(Tail(line))))
    IN IF value = "" THEN None ELSE value

\* One iteration of _iter_sse_events of the Anthropic adapter
AnthropicIterStep(etype, lines, line_bytes) ==
    IF line_bytes = <<>>
    THEN IterResult("exhausted", lines, etype,
                    IF lines # <<>> THEN ParseSSEEvent(etype, lines) ELSE Nothing)
    ELSE LET line == Rstrip(line_bytes)
         IN IF line = <<>>
            THEN IterResult("reading", <<>>, None,
                            IF lines # <<>> THEN ParseSSEEvent(etype, lines) ELSE Nothing)
            ELSE IF StartsWith(line, ":") THEN IterResult("reading", lines, etype, Nothing)
            ELSE IF StartsWith(line, "event:")
            THEN IterResult("reading", lines, EventValue(line), Nothing)
            ELSE IF StartsWith(line, "data:")
            THEN IterResult("reading", Append(lines, FieldValue(line)), etype, Nothing)
            ELSE IterResult("reading", lines, etype, Nothing)

\* _iter_sse_events of the running adapter
IterStep(p, etype, lines, line_bytes) ==
    IF p = "anthropic" THEN AnthropicIterStep(etype, lines, line_bytes)
    ELSE ChatIterStep(p, lines, line_bytes)

\* ---------------------------------------------------------------- the wire

EndOfStream == <<>>

\* The lines a stream is drawn from: the blank line, a comment, an id: field,
\* an event: field, and data: fields holding a whole document, the halves of
\* one, a document that is no dict, a broken document and the sentinel.
WireLines ==
    {<<"\n">>,
     <<":", "keep-alive", "\n">>,
     <<"id:", " ", "7", "\n">>,
     <<"event:", " ", "ping", "\n">>,
     <<"data:", " ", DocId, "\n">>,
     <<"data:", DocCompleted, "\r", "\n">>,
     <<"data:", " ", DocIdHead, "\n">>,
     <<"data:", " ", DocIdTail, "\n">>,
     <<"data:", " ", DocList, "\n">>,
     <<"data:", " ", DocBroken, "\n">>,
     <<"data:", " ", Sentinel, "\n">>}

\* --------------------------------------------- send calls that read the wire

InitSSE ==
    /\ provider \in {"grok", "openai_urllib", "anthropic"}
    /\ pc = "stream"
    /\ events = <<>>
    /\ response_payload = EmptyDict
    /\ output_text = ""
    /\ IdleChunks /\ IdleSummary /\ IdleParser /\ IdleCall
    /\ IdleBatch

\* The body of the send call's "for event in _iter_sse_events(response)" for
\* the events the generator yielded (at most one).
SSEConsume(out) ==
    /\ events' = events \o out
    /\ IF provider = "openai_urllib" /\ out # <<>>
       THEN LET st == OpenAIStep(provider,
                                 [summary_chunks |-> summary_chunks,
                                  summary_done |-> summary_done,
                                  response_payload |-> response_payload], out[1])
            IN /\ summary_chunks' = st.summary_chunks
               /\ summary_done' = st.summary_done
               /\ response_payload' = st.response_payload
       ELSE UNCHANGED <<summary_chunks, summary_done, response_payload>>

\* One readline() of the generator and, when it yields, the loop body of the
\* send call; a RuntimeError of the parser leaves the send call.
SSEReadLine ==
    /\ pc = "stream"
    /\ \E line_bytes \in WireLines \cup {EndOfStream} :
        /\ Len(wire) < MaxLines \/ line_bytes = EndOfStream
        /\ LET r == IterStep(provider, event_type, data_lines, line_bytes)
           IN /\ wire' = Append(wire, line_bytes)
              /\ data_lines' = r.data_lines
              /\ event_type' = r.event_type
              /\ error' = r.error
              /\ pc' = IF r.status = "reading" THEN "stream" ELSE r.status
              /\ SSEConsume(r.out)
    /\ UNCHANGED <<provider, output_text, chunkVars, callVars>>
    /\ UNCHANGED batchVars

\* The send call after the loop: the payload is reconstructed (Grok,
\* Anthropic) or the terminal response taken (OpenAI), and returned.
SSEReturn ==
    /\ pc = "exhausted"
    /\ response_payload' =
          IF provider = "grok" THEN GrokReconstruct(events)
          ELSE IF provider = "anthropic" THEN AnthropicReconstruct(events)
          ELSE response_payload
    /\ output_text' =
          IF provider = "grok" THEN ChatExtractOutputText(response_payload')
          ELSE IF provider = "anthropic" THEN AnthropicExtractOutputText(response_payload')
          ELSE OpenAIExtractOutputText(response_payload')
    /\ pc' = "done"
    /\ UNCHANGED <<provider, events, chunkVars, summaryVars, parserVars, callVars>>
    /\ UNCHANGED batchVars

NextSSE == SSEReadLine \/ SSEReturn

SpecSSE == InitSSE /\ [][NextSSE]_vars

\* ------------------------------------------------- non-streaming payloads

\* The sequences over S of length at most n.
SeqsUpTo(S, n) == UNION {[1..k -> S] : k \in 0..n}

\* The content parts of an OpenAI message item.
OpenAIParts ==
    {[type |-> "output_text", text |-> "a"],
     [type |-> "output_text", text |-> "b"],
     [type |-> "refusal", refusal |-> "x"]}

\* The items of the output list of an OpenAI response.
OpenAIItems ==
    {[type |-> "message", role |-> "assistant", content |-> c] :
        c \in SeqsUpTo(OpenAIParts, MaxParts)}
    \cup {[type |-> "reasoning", summary |-> <<>>]}

\* The blocks of the content list of an Anthropic message.
AnthropicBlocks ==
    {[type |-> "text", text |-> "a"],
     [type |-> "text", text |-> "b"],
     [type |-> "thinking", thinking |-> "t"]}

\* The choices of a chat completion; a message without text has no content key.
ChatChoiceList ==
    {[index |-> i, message |-> m, finish_reason |-> "stop"] :
        i \in {0, 1},
        m \in {[role |-> "assistant", content |-> "a"],
               [role |-> "assistant", content |-> "b"],
               [role |-> "assistant"]}}

\* The response payloads an adapter's extract_output_text is applied to.
Payloads(p) ==
    IF p = "openai"
    THEN {[id |-> "resp_1", output |-> o] : o \in SeqsUpTo(OpenAIItems, MaxParts)}
    ELSE IF p = "anthropic"
    THEN {[id |-> "msg_1", content |-> c] : c \in SeqsUpTo(AnthropicBlocks, MaxParts)}
    ELSE {[id |-> "c1", choices |-> c] : c \in SeqsUpTo(ChatChoiceList, MaxParts)}

\* extract_output_text(payload) of the adapter of provider p
ExtractOutputTextOf(p, payload) ==
    IF p = "openai" THEN OpenAIExtractOutputText(payload)
    ELSE IF p = "anthropic" THEN AnthropicExtractOutputText(payload)
    ELSE ChatExtractOutputText(payload)

InitExtract ==
    /\ provider \in {"openai", "anthropic", "grok", "fireworks"}
    /\ pc = "payload"
    /\ response_payload \in Payloads(provider)
    /\ events = <<>>
    /\ output_text = ""
    /\ IdleChunks /\ IdleSummary /\ IdleParser /\ IdleCall
    /\ IdleBatch

\* output_text = extract_output_text(response_payload)
ExtractOutputText ==
    /\ pc = "payload"
    /\ output_text' = ExtractOutputTextOf(provider, response_payload)
    /\ pc' = "extracted"
    /\ UNCHANGED <<provider, events, response_payload>>
    /\ UNCHANGED <<chunkVars, summaryVars, parserVars, callVars>>
    /\ UNCHANGED batchVars

NextExtract == ExtractOutputText

SpecExtract == InitExtract /\ [][NextExtract]_vars

\* ------------------------------------------------------- streaming runs

\* run_grok_puzzle and run_fireworks_puzzle after the send call returned:
\* the text is extracted from the payload, the streamed chunks the fallback.
ChatFinish ==
    /\ provider \in {"grok", "fireworks"}
    /\ pc = "done"
    /\ output_text' = RunOutputText(ChatExtractOutputText(response_payload),
                                    streamed_chunks)
    /\ pc' = "finished"
    /\ UNCHANGED <<provider, events, response_payload>>
    /\ UNCHANGED <<chunkVars, summaryVars, parserVars, callVars>>
    /\ UNCHANGED batchVars

\* The streaming runs of the runner: run_openai_puzzle, run_grok_puzzle and
\* run_fireworks_puzzle.
InitRun == InitOpenAI \/ InitChat

NextRun == NextOpenAI \/ NextChat \/ ChatFinish

SpecRun == InitRun /\ [][NextRun]_vars

\* ---------------------------------------------------------------- costs

\* A JSON or Python value by its type: IntVal(n) is the int n, StrVal(s) a
\* value that is no int.  None is the key left out of the dict.
IntVal(n) == [int |-> n]
StrVal(s) == [str |-> s]
IsInt(d, k) == Has(d, k) /\ DOMAIN d[k] = {"int"}

\* compute_cost_breakdown returning None
NoCost == [none |-> TRUE]

\* The mutant of compute_cost_breakdown: the output bucket is priced on
\* output_tokens whether or not they include the reasoning tokens.
ComputeCostBreakdownUnadjusted(tokens, price_schedule, output_includes_reasoning) ==
    IF ~IsInt(price_schedule, "input") \/ ~IsInt(price_schedule, "output")
    THEN NoCost
    ELSE IF ~IsInt(tokens, "input_tokens") \/ ~IsInt(tokens, "output_tokens")
    THEN NoCost
    ELSE LET reasoning_tokens == IF IsInt(tokens, "reasoning_tokens")
                                 THEN tokens.reasoning_tokens.int ELSE 0
             input_cost == tokens.input_tokens.int * price_schedule.input.int
             reasoning_cost == reasoning_tokens * price_schedule.output.int
             output_cost == tokens.output_tokens.int * price_schedule.output.int
         IN [input_cost |-> input_cost, reasoning_cost |-> reasoning_cost,
             output_cost |-> output_cost,
             total_cost |-> input_cost + reasoning_cost + output_cost]

\* compute_cost_breakdown(tokens, price_schedule, output_includes_reasoning=...).
\* A rate is the schedule's USD per million tokens in hundredths, so a cost is
\* tokens * rate in units of 1e-8 USD; float rounding is not modelled.
ComputeCostBreakdown(tokens, price_schedule, output_includes_reasoning) ==
    IF ~IsInt(price_schedule, "input") \/ ~IsInt(price_schedule, "output")
    THEN NoCost
    ELSE IF ~IsInt(tokens, "input_tokens") \/ ~IsInt(tokens, "output_tokens")
    THEN NoCost
    ELSE LET reasoning_tokens == IF IsInt(tokens, "reasoning_tokens")
                                 THEN tokens.reasoning_tokens.int ELSE 0
             output_tokens ==
                 IF output_includes_reasoning
                 THEN IF tokens.output_tokens.int - reasoning_tokens > 0
                      THEN tokens.output_tokens.int - reasoning_tokens ELSE 0
                 ELSE tokens.output_tokens.int
             input_cost == tokens.input_tokens.int * price_schedule.input.int
             reasoning_cost == reasoning_tokens * price_schedule.output.int
             output_cost == output_tokens * price_schedule.output.int
         IN [input_cost |-> input_cost, reasoning_cost |-> reasoning_cost,
             output_cost |-> output_cost,
             total_cost |-> input_cost + reasoning_cost + output_cost]

\* The dicts with the given keys, each left out or bound to one of the values.
DictsOver(keys, values) ==
    UNION {[S -> values] : S \in SUBSET keys}

\* The values of a token figure: the counts up to MaxTokens and a value that
\* is no int.
TokenValues == {IntVal(n) : n \in 0..MaxTokens} \cup {StrVal("2")}

\* The TokenBreakdown records compute_cost_breakdown is applied to.
TokenBreakdowns ==
    DictsOver({"input_tokens", "reasoning_tokens", "output_tokens"}, TokenValues)

\* The rates of the o3 entry of the OpenAI catalog, in hundredths.
PriceSchedules ==
    {Put(Put(s, "currency", StrVal("usd")), "unit", StrVal("per_million_tokens")) :
        s \in DictsOver({"input", "output"}, {IntVal(200), IntVal(800)})}

InitCompute ==
    /\ provider = "costs"
    /\ pc = "compute"
    /\ \E tokens \in TokenBreakdowns, price_schedule \in PriceSchedules,
          output_includes_reasoning \in BOOLEAN :
          args = [tokens |-> tokens, price_schedule |-> price_schedule,
                  output_includes_reasoning |-> output_includes_reasoning]
    /\ result = EmptyDict
    /\ effects = <<>>
    /\ events = <<>> /\ response_payload = EmptyDict /\ output_text = ""
    /\ IdleChunks /\ IdleSummary /\ IdleParser
    /\ IdleBatch

\* compute_cost_breakdown applied to the arguments
ComputeCost ==
    /\ pc = "compute"
    /\ result' = ComputeCostBreakdown(args.tokens, args.price_schedule,
                                      args.output_includes_reasoning)
    /\ pc' = "returned"
    /\ UNCHANGED <<provider, events, response_payload, output_text, args, effects>>
    /\ UNCHANGED <<chunkVars, summaryVars, parserVars>>
    /\ UNCHANGED batchVars


\* PRICE_SCHEDULES_USD_PER_MILLION of the adapters, the rates in hundredths;
\* a rate of None is left out.
PriceSchedulesUsdPerMillion(p) ==
    IF p = "openai"
    THEN [m \in {"o3-2025-04-16", "gpt-4o-2024-05-13", "gpt-5.2-2025-12-11"} |->
            IF m = "o3-2025-04-16"
            THEN [input |-> IntVal(200), output |-> IntVal(800)]
            ELSE IF m = "gpt-4o-2024-05-13"
            THEN [input |-> IntVal(250), output |-> IntVal(1000)]
            ELSE [input |-> IntVal(175), output |-> IntVal(1400)]]
    ELSE IF p = "anthropic"
    THEN [m \in {"claude-opus-4-5-20251101"} |->
            [input |-> IntVal(500), output |-> IntVal(2500)]]
    ELSE IF p = "grok"
    THEN [m \in {"grok-4-1-fast-reasoning", "grok-3"} |->
            IF m = "grok-3"
            THEN [input |-> IntVal(300), output |-> IntVal(1500)]
            ELSE [input |-> IntVal(20), output |-> IntVal(50)]]
    ELSE [m \in {"accounts/fireworks/models/deepseek-v3p2",
                 "accounts/fireworks/models/deepseek-v3-0324",
                 "accounts/fireworks/models/qwen3-vl-235b-a22b-thinking",
                 "accounts/fireworks/models/qwen2p5-vl-32b-instruct",
                 "accounts/fireworks/models/kimi-k2p5",
                 "accounts/fireworks/models/kimi-k2-instruct-0905",
                 "accounts/fireworks/models/llama-v3p3-70b-instruct"} |->
            IF m = "accounts/fireworks/models/deepseek-v3p2"
            THEN [input |-> IntVal(56), input_cached |-> IntVal(28), output |-> IntVal(168)]
            ELSE IF m = "accounts/fireworks/models/qwen3-vl-235b-a22b-thinking"
            THEN [input |-> IntVal(22), output |-> IntVal(88)]
            ELSE IF m = "accounts/fireworks/models/kimi-k2p5"
            THEN [input |-> IntVal(60), input_cached |-> IntVal(10), output |-> IntVal(300)]
            ELSE IF m = "accounts/fireworks/models/kimi-k2-instruct-0905"
            THEN [input |-> IntVal(60), input_cached |-> IntVal(30), output |-> IntVal(250)]
            ELSE [input |-> IntVal(90), input_cached |-> IntVal(45), output |-> IntVal(90)]]

\* CANONICAL_MODELS of the Fireworks adapter
CanonicalModels ==
    [a \in {"deepseek-v3p2", "deepseek-v3-0324", "qwen3-vl-235b-thinking",
            "qwen2p5-vl-32b", "kimi-k2p5", "kimi-k2-instruct-0905",
            "llama-v3p3-70b-instruct"} |->
        IF a = "qwen3-vl-235b-thinking"
        THEN "accounts/fireworks/models/qwen3-vl-235b-a22b-thinking"
        ELSE IF a = "qwen2p5-vl-32b"
        THEN "accounts/fireworks/models/qwen2p5-vl-32b-instruct"
        ELSE "accounts/fireworks/models/" \o a]

\* resolve_model(model) of the Fireworks adapter; the identity elsewhere
ResolveModel(p, model) ==
    IF p = "fireworks" /\ model \in DOMAIN CanonicalModels
    THEN CanonicalModels[model] ELSE model

\* price_schedule_for_model returning None
NoSchedule == [none |-> TRUE]

\* price_schedule_for_model(model) of the adapter of provider p
PriceScheduleForModel(p, model) ==
    LET catalog == PriceSchedulesUsdPerMillion(p)
        m == ResolveModel(p, model)
    IN IF m \notin DOMAIN catalog THEN NoSchedule
       ELSE LET schedule == catalog[m]
                keys == DOMAIN schedule \cup {"currency", "unit"}
            IN [k \in keys |->
                   IF k = "currency" THEN StrVal("usd")
                   ELSE IF k = "unit" THEN StrVal("per_million_tokens")
                   ELSE schedule[k]]

\* A TokenBreakdown from the figures that are ints; the others are None.
Breakdown(input_tokens, reasoning_tokens, output_tokens) ==
    LET figures == [input_tokens |-> input_tokens,
                    reasoning_tokens |-> reasoning_tokens,
                    output_tokens |-> output_tokens]
    IN [k \in {f \in DOMAIN figures : IsInt(figures, f)} |-> figures[k]]

\* usage.get(key), None as the dict without keys
Get(d, k) == IF Has(d, k) THEN d[k] ELSE EmptyDict

\* extract_usage_breakdown(payload) of the OpenAI adapter
OpenAIExtractUsageBreakdown(payload) ==
    IF ~Has(payload, "usage") THEN NoBreakdown
    ELSE LET usage == payload.usage
             details == Get(usage, "output_tokens_details")
         IN Breakdown(Get(usage, "input_tokens"),
                      Get(details, "reasoning_tokens"),
                      Get(usage, "output_tokens"))

\* extract_usage_breakdown(payload) of the Grok and of the Fireworks adapter
ChatExtractUsageBreakdown(payload) ==
    IF ~Has(payload, "usage") THEN NoBreakdown
    ELSE LET usage == payload.usage
             input_tokens == IF IsInt(usage, "prompt_tokens")
                             THEN usage.prompt_tokens ELSE Get(usage, "input_tokens")
             output_tokens == IF IsInt(usage, "completion_tokens")
                              THEN usage.completion_tokens
                              ELSE Get(usage, "output_tokens")
             first == Get(usage, "completion_tokens_details")
             second == Get(usage, "output_tokens_details")
             reasoning_tokens == IF IsInt(first, "reasoning_tokens")
                                 THEN first.reasoning_tokens
                                 ELSE Get(second, "reasoning_tokens")
         IN Breakdown(input_tokens, reasoning_tokens, output_tokens)

\* extract_usage_breakdown(payload) of the adapter of provider p; the figures
\* of an Anthropic usage are ints.
ExtractUsageBreakdown(p, payload) ==
    IF p = "openai" THEN OpenAIExtractUsageBreakdown(payload)
    ELSE IF p = "anthropic"
    THEN LET tokens == AnthropicExtractUsageBreakdown(payload)
         IN IF tokens = NoBreakdown THEN NoBreakdown
            ELSE [k \in DOMAIN tokens |-> IntVal(tokens[k])]
    ELSE ChatExtractUsageBreakdown(payload)

\* The mutant of calculate_cost_breakdown: a payload without usage block is
\* priced as zero tokens.
CalculateCostBreakdownZeroFilled(p, payload, model) ==
    LET schedule == PriceScheduleForModel(p, model)
        tokens == ExtractUsageBreakdown(p, payload)
    IN IF schedule = NoSchedule THEN NoCost
       ELSE IF tokens = NoBreakdown
       THEN [input_cost |-> 0, reasoning_cost |-> 0, output_cost |-> 0, total_cost |-> 0]
       ELSE ComputeCostBreakdown(tokens, schedule, TRUE)

\* calculate_cost_breakdown(payload, model=...) of the adapter of provider p
CalculateCostBreakdown(p, payload, model) ==
    LET schedule == PriceScheduleForModel(p, model)
        tokens == ExtractUsageBreakdown(p, payload)
    IN IF schedule = NoSchedule THEN NoCost
       ELSE IF tokens = NoBreakdown THEN NoCost
       ELSE ComputeCostBreakdown(tokens, schedule, TRUE)


\* dict(a, **b): the keys of b over those of a
Merge(a, b) ==
    [k \in DOMAIN a \cup DOMAIN b |-> IF k \in DOMAIN b THEN b[k] ELSE a[k]]

\* The usage blocks of the response payloads of the adapter of provider p.
Usages(p) ==
    IF p = "openai"
    THEN {Merge(u, d) :
            u \in DictsOver({"input_tokens", "output_tokens"}, TokenValues),
            d \in DictsOver({"output_tokens_details"},
                            DictsOver({"reasoning_tokens"}, TokenValues))}
    ELSE IF p = "anthropic"
    THEN DictsOver({"input_tokens", "cache_read_input_tokens", "output_tokens"},
                   0..MaxTokens)
    ELSE {Merge(u, d) :
            u \in DictsOver({"prompt_tokens", "input_tokens",
                             "completion_tokens", "output_tokens"},
                            {IntVal(1), StrVal("2")}),
            d \in DictsOver({"completion_tokens_details", "output_tokens_details"},
                            DictsOver({"reasoning_tokens"},
                                      {IntVal(1), StrVal("2")}))}

\* The response payloads calculate_cost_breakdown is applied to: with a usage
\* block and without one.
UsagePayloads(p) == {[id |-> "r1"]} \cup {[id |-> "r1", usage |-> u] : u \in Usages(p)}

\* The models of a call: those of the price catalog, the Fireworks aliases,
\* and a model the catalog does not know.
CostModels(p) ==
    DOMAIN PriceSchedulesUsdPerMillion(p)
    \cup (IF p = "fireworks" THEN DOMAIN CanonicalModels ELSE {})
    \cup {"unknown-model"}

InitCalculate ==
    /\ provider \in {"openai", "anthropic", "grok", "fireworks"}
    /\ pc = "calculate"
    /\ response_payload \in UsagePayloads(provider)
    /\ \E model \in CostModels(provider) : args = [model |-> model]
    /\ result = EmptyDict
    /\ effects = <<>>
    /\ events = <<>> /\ output_text = ""
    /\ IdleChunks /\ IdleSummary /\ IdleParser
    /\ IdleBatch

\* calculate_cost_breakdown(response_payload, model=model)
CalculateCost ==
    /\ pc = "calculate"
    /\ result' = CalculateCostBreakdown(provider, response_payload, args.model)
    /\ pc' = "returned"
    /\ UNCHANGED <<provider, events, response_payload, output_text, args, effects>>
    /\ UNCHANGED <<chunkVars, summaryVars, parserVars>>
    /\ UNCHANGED batchVars

InitCost == InitCompute \/ InitCalculate

NextCost == ComputeCost \/ CalculateCost

SpecCost == InitCost /\ [][NextCost]_vars

\* ------------------------------------------------------ request builders

\* MODEL_DEFAULTS of the adapters: model -> its defaults
ModelDefaults(p) ==
    IF p = "openai"
    THEN [m \in {"o3-2025-04-16", "gpt-4o-2024-05-13", "gpt-5.2-2025-12-11"} |->
            [max_output_tokens |->
                IF m = "o3-2025-04-16" THEN 100000
                ELSE IF m = "gpt-4o-2024-05-13" THEN 64000 ELSE 128000]]
    ELSE IF p = "anthropic"
    THEN [m \in {"claude-opus-4-5-20251101"} |->
            [max_output_tokens |-> 64000, thinking_budget_tokens |-> 20000]]
    ELSE IF p = "grok"
    THEN [m \in {"grok-4-1-fast-reasoning", "grok-3"} |->
            [max_output_tokens |-> IF m = "grok-3" THEN 16384 ELSE 256000]]
    ELSE [m \in {"accounts/fireworks/models/deepseek-v3p2",
                 "accounts/fireworks/models/deepseek-v3-0324",
                 "accounts/fireworks/models/qwen3-vl-235b-a22b-thinking",
                 "accounts/fireworks/models/qwen2p5-vl-32b-instruct",
                 "accounts/fireworks/models/kimi-k2p5",
                 "accounts/fireworks/models/kimi-k2-instruct-0905",
                 "accounts/fireworks/models/llama-v3p3-70b-instruct"} |->
            [max_output_tokens |->
                IF m = "accounts/fireworks/models/deepseek-v3p2" THEN 64000
                ELSE IF m = "accounts/fireworks/models/deepseek-v3-0324" THEN 30000
                ELSE IF m = "accounts/fireworks/models/qwen3-vl-235b-a22b-thinking"
                THEN 38912
                ELSE IF m = "accounts/fireworks/models/qwen2p5-vl-32b-instruct"
                THEN 128000
                ELSE IF m = "accounts/fireworks/models/llama-v3p3-70b-instruct"
                THEN 8192
                ELSE 250000]]

\* REASONING_MODELS of the Anthropic, Grok and Fireworks adapters
ReasoningModels(p) ==
    IF p = "anthropic" THEN {"claude-opus-4-5-20251101"}
    ELSE IF p = "grok" THEN {"grok-4-1-fast-reasoning"}
    ELSE {"accounts/fireworks/models/deepseek-v3p2", "deepseek-v3p2",
          "accounts/fireworks/models/qwen3-vl-235b-a22b-thinking",
          "qwen3-vl-235b-thinking",
          "accounts/fireworks/models/kimi-k2p5", "kimi-k2p5",
          "accounts/fireworks/models/kimi-k2-instruct-0905",
          "kimi-k2-instruct-0905"}

\* "if max_output_tokens is None: defaults = MODEL_DEFAULTS.get(model, {});
\* max_output_tokens = defaults.get("max_output_tokens")": the ceiling as the
\* set of its values, empty when it is still None.
EffectiveCeiling(p, model_id, a) ==
    IF Has(a, "max_output_tokens") THEN {a.max_output_tokens}
    ELSE IF model_id \in DOMAIN ModelDefaults(p)
    THEN {ModelDefaults(p)[model_id].max_output_tokens}
    ELSE {}

\* What a builder does: it returns a payload or raises a ValueError.
Returned(payload) == [payload |-> payload]
RaisedValueError(message) == [raised |-> message]

\* The "if x is not None: payload[key] = x" lines of a builder for the
\* arguments that are copied under their own name.
CopyOptional(payload, a, keys) ==
    [k \in DOMAIN payload \cup (keys \cap DOMAIN a) |->
        IF k \in DOMAIN payload THEN payload[k] ELSE a[k]]

\* The mutant of the OpenAI builder: without a ceiling it builds the payload
\* without max_output_tokens.
BuildResponseRequestNoRaise(a) ==
    LET ceiling == EffectiveCeiling("openai", a.model, a)
        payload == [model |-> a.model,
                    input |-> <<[role |-> "system",
                                 content |-> <<[type |-> "input_text", text |-> "S"]>>],
                                [role |-> "user",
                                 content |-> <<[type |-> "input_text", text |-> "U"]>>]>>]
    IN Returned(CopyOptional(
           IF ceiling = {} THEN payload
           ELSE Put(payload, "max_output_tokens", CHOOSE c \in ceiling : TRUE),
           a, {"temperature", "top_p", "reasoning", "stream"}))

\* build_response_request(**a) of the OpenAI adapter
BuildResponseRequest(a) ==
    LET ceiling == EffectiveCeiling("openai", a.model, a)
    IN IF ceiling = {}
       THEN RaisedValueError(
                "max_output_tokens must be set (model defaults are not yet configured)")
       ELSE Returned(CopyOptional(
                [model |-> a.model,
                 input |-> <<[role |-> "system",
                              content |-> <<[type |-> "input_text", text |-> "S"]>>],
                             [role |-> "user",
                              content |-> <<[type |-> "input_text", text |-> "U"]>>]>>,
                 max_output_tokens |-> CHOOSE c \in ceiling : TRUE],
                a, {"temperature", "top_p", "reasoning", "stream"}))

\* The mutant of the thinking checks: a thinking block is not checked against
\* temperature and top_k.
ThinkingErrorIgnoringSampling(a, max_output_tokens) ==
    IF ~Has(a, "thinking") THEN None
    ELSE IF ~Has(a.thinking, "type") \/ a.thinking.type # "enabled"
    THEN "Anthropic thinking.type must be 'enabled' when provided"
    ELSE IF ~IsInt(a.thinking, "budget_tokens")
    THEN "Anthropic thinking.budget_tokens must be an integer"
    ELSE IF a.thinking.budget_tokens.int <= 0
    THEN "Anthropic thinking.budget_tokens must be positive"
    ELSE IF a.thinking.budget_tokens.int >= max_output_tokens
    THEN "Anthropic thinking.budget_tokens must be less than max_tokens"
    ELSE None

\* The checks of build_messages_request on the thinking block: the message of
\* the ValueError raised, None when the block passes.
ThinkingError(a, max_output_tokens) ==
    IF ~Has(a, "thinking") THEN None
    ELSE IF Has(a, "temperature") \/ Has(a, "top_k")
    THEN "Anthropic thinking is incompatible with temperature or top_k"
    ELSE IF ~Has(a.thinking, "type") \/ a.thinking.type # "enabled"
    THEN "Anthropic thinking.type must be 'enabled' when provided"
    ELSE IF ~IsInt(a.thinking, "budget_tokens")
    THEN "Anthropic thinking.budget_tokens must be an integer"
    ELSE IF a.thinking.budget_tokens.int <= 0
    THEN "Anthropic thinking.budget_tokens must be positive"
    ELSE IF a.thinking.budget_tokens.int >= max_output_tokens
    THEN "Anthropic thinking.budget_tokens must be less than max_tokens"
    ELSE None

\* The mutant of the thinking checks: the budget is not compared with the
\* ceiling.
BuildMessagesRequestAnyBudget(a) ==
    LET ceiling == EffectiveCeiling("anthropic", a.model, a)
    IN IF ceiling = {}
       THEN RaisedValueError("max_output_tokens must be set for Anthropic requests")
       ELSE LET max_output_tokens == CHOOSE c \in ceiling : TRUE
                message == ThinkingError(a, max_output_tokens)
            IN IF message \notin
                     {None, "Anthropic thinking.budget_tokens must be less than max_tokens"}
               THEN RaisedValueError(message)
               ELSE Returned(CopyOptional(
                        [model |-> a.model,
                         max_tokens |-> max_output_tokens,
                         system |-> <<[type |-> "text", text |-> "S"]>>,
                         messages |-> <<[role |-> "user", content |-> "U"]>>],
                        a, {"temperature", "top_p", "top_k", "thinking", "stream"}))

\* build_messages_request(**a) of the Anthropic adapter
BuildMessagesRequest(a) ==
    LET ceiling == EffectiveCeiling("anthropic", a.model, a)
    IN IF ceiling = {}
       THEN RaisedValueError("max_output_tokens must be set for Anthropic requests")
       ELSE LET max_output_tokens == CHOOSE c \in ceiling : TRUE
                message == ThinkingError(a, max_output_tokens)
            IN IF message # None
               THEN RaisedValueError(message)
               ELSE Returned(CopyOptional(
                        [model |-> a.model,
                         max_tokens |-> max_output_tokens,
                         system |-> <<[type |-> "text", text |-> "S"]>>,
                         messages |-> <<[role |-> "user", content |-> "U"]>>],
                        a, {"temperature", "top_p", "top_k", "thinking", "stream"}))

\* The mutant of the chat builders: the catalog default is not looked up.
BuildChatCompletionRequestNoDefault(p, a) ==
    LET model_id == ResolveModel(p, a.model)
        p1 == [model |-> model_id,
               messages |-> <<[role |-> "system", content |-> "S"],
                              [role |-> "user", content |-> "U"]>>]
        p2 == IF Has(a, "max_output_tokens")
              THEN Put(p1, "max_tokens", a.max_output_tokens) ELSE p1
    IN Returned(CopyOptional(p2, a, {"temperature", "top_p", "stream"}))

\* build_chat_completion_request(**a) of the Grok and of the Fireworks
\* adapter; Fireworks resolves the alias and defaults reasoning_effort.
BuildChatCompletionRequest(p, a) ==
    LET model_id == ResolveModel(p, a.model)
        ceiling == EffectiveCeiling(p, model_id, a)
        p1 == [model |-> model_id,
               messages |-> <<[role |-> "system", content |-> "S"],
                              [role |-> "user", content |-> "U"]>>]
        p2 == IF ceiling # {}
              THEN Put(p1, "max_tokens", CHOOSE c \in ceiling : TRUE) ELSE p1
        p3 == CopyOptional(p2, a, {"temperature", "top_p"})
        p4 == IF p # "fireworks" THEN p3
              ELSE IF Has(a, "reasoning_effort")
              THEN Put(p3, "reasoning_effort", a.reasoning_effort)
              ELSE IF ResolveModel(p, model_id) \in ReasoningModels(p)
                      \/ model_id \in ReasoningModels(p)
              THEN Put(p3, "reasoning_effort", "high")
              ELSE p3
    IN Returned(CopyOptional(p4, a, {"stream"}))

\* The request builder of the adapter of provider p
BuildRequest(p, a) ==
    IF p = "openai" THEN BuildResponseRequest(a)
    ELSE IF p = "anthropic" THEN BuildMessagesRequest(a)
    ELSE BuildChatCompletionRequest(p, a)

\* An argument that is either left out or given one of the values.
OptionalArg(k, values) == {EmptyDict} \cup {[x \in {k} |-> v] : v \in values}

\* The models a builder is called with: the catalog models, the Fireworks
\* aliases, and a model the catalog does not know.
BuilderModels(p) ==
    DOMAIN ModelDefaults(p)
    \cup (IF p = "fireworks" THEN DOMAIN CanonicalModels ELSE {})
    \cup {"unknown-model"}

\* The thinking blocks a caller passes: with and without type and
\* budget_tokens, the budget an integer around zero, around the explicit
\* ceilings and around the catalog's ceiling, or a string.
ThinkingBudgets ==
    {IntVal(b) : b \in (-1 .. MaxCeiling + 1) \cup {20000, 63999, 64000, 64001}}
    \cup {StrVal("2")}

ThinkingBlocks ==
    {[type |-> t] : t \in {"enabled", "disabled"}}
    \cup {[type |-> t, budget_tokens |-> b] :
            t \in {"enabled", "disabled"}, b \in ThinkingBudgets}
    \cup {[budget_tokens |-> IntVal(1)]}

\* The keyword arguments of a call of the builder of provider p
BuilderArgs(p) ==
    {Merge(Merge(Merge([model |-> m], c), s), o) :
        m \in BuilderModels(p),
        c \in OptionalArg("max_output_tokens", 0 .. MaxCeiling),
        s \in OptionalArg("temperature", {1}),
        o \in IF p = "anthropic"
              THEN {Merge(k, t) : k \in OptionalArg("top_k", {5}),
                                  t \in OptionalArg("thinking", ThinkingBlocks)}
              ELSE IF p = "fireworks"
              THEN OptionalArg("reasoning_effort", {"low"})
              ELSE OptionalArg("stream", {TRUE})}

InitBuild ==
    /\ provider \in {"openai", "anthropic", "grok", "fireworks"}
    /\ pc = "build"
    /\ args \in BuilderArgs(provider)
    /\ result = EmptyDict
    /\ effects = <<>>
    /\ events = <<>> /\ response_payload = EmptyDict /\ output_text = ""
    /\ IdleChunks /\ IdleSummary /\ IdleParser
    /\ IdleBatch

\* A call of the request builder of the adapter with the arguments args
Build ==
    /\ pc = "build"
    /\ result' = BuildRequest(provider, args)
    /\ pc' = IF Has(result', "raised") THEN "raised" ELSE "returned"
    /\ UNCHANGED <<provider, events, response_payload, output_text, args, effects>>
    /\ UNCHANGED <<chunkVars, summaryVars, parserVars>>
    /\ UNCHANGED batchVars

\* default_thinking_budget_for_model(model) of the Anthropic adapter, as the
\* set of its values
DefaultThinkingBudgetForModel(model) ==
    IF model \in DOMAIN ModelDefaults("anthropic")
    THEN {ModelDefaults("anthropic")[model].thinking_budget_tokens}
    ELSE {}

\* run_anthropic_puzzle: "if thinking is None and
\* anthropic_supports_reasoning(model)": the default thinking block
WithDefaultThinking(a) ==
    IF ~Has(a, "thinking") /\ a.model \in ReasoningModels("anthropic")
       /\ DefaultThinkingBudgetForModel(a.model) # {}
    THEN Put(a, "thinking",
             [type |-> "enabled",
              budget_tokens |->
                  IntVal(CHOOSE b \in DefaultThinkingBudgetForModel(a.model) : TRUE)])
    ELSE a

\* The keyword arguments of a call of run_anthropic_puzzle
InitRunAnthropic ==
    /\ provider = "anthropic"
    /\ pc = "run"
    /\ \E a \in BuilderArgs("anthropic"), stream \in BOOLEAN, dry_run \in BOOLEAN,
          debug_sse \in BOOLEAN :
          args = Merge(a, [stream |-> stream, dry_run |-> dry_run,
                           debug_sse |-> debug_sse])
    /\ result = EmptyDict
    /\ effects = <<>>
    /\ events = <<>> /\ response_payload = EmptyDict /\ output_text = ""
    /\ IdleChunks /\ IdleSummary /\ IdleParser
    /\ IdleBatch

\* run_anthropic_puzzle up to the request payload: the debug_sse check, the
\* default thinking block, build_messages_request
RunAnthropicBuild ==
    /\ pc = "run"
    /\ result' = IF args.debug_sse /\ ~args.stream
                 THEN RaisedValueError("debug_sse requires stream=True")
                 ELSE BuildMessagesRequest(WithDefaultThinking(args))
    /\ pc' = IF Has(result', "raised") THEN "raised" ELSE "built"
    /\ UNCHANGED <<provider, events, response_payload, output_text, args, effects>>
    /\ UNCHANGED <<chunkVars, summaryVars, parserVars>>
    /\ UNCHANGED batchVars

\* run_anthropic_puzzle: "if not debug_sse: store.record_request(...)", then
\* "if dry_run: return RunResult(...)"
RunAnthropicRecordRequest ==
    /\ pc = "built"
    /\ effects' = IF ~args.debug_sse THEN Append(effects, "record_request")
                  ELSE effects
    /\ pc' = IF args.dry_run THEN "returned" ELSE "recorded"
    /\ UNCHANGED <<provider, events, response_payload, output_text, args, result>>
    /\ UNCHANGED <<chunkVars, summaryVars, parserVars>>
    /\ UNCHANGED batchVars

\* run_anthropic_puzzle: send_messages_request(request_payload, ...)
RunAnthropicSend ==
    /\ pc = "recorded"
    /\ effects' = Append(effects, "send_messages_request")
    /\ pc' = "sent"
    /\ UNCHANGED <<provider, events, response_payload, output_text, args, result>>
    /\ UNCHANGED <<chunkVars, summaryVars, parserVars>>
    /\ UNCHANGED batchVars

InitBuilders == InitBuild \/ InitRunAnthropic

NextBuilders ==
    Build \/ RunAnthropicBuild \/ RunAnthropicRecordRequest \/ RunAnthropicSend

SpecBuilders == InitBuilders /\ [][NextBuilders]_vars

\* ------------------------------------------------------------- transport

\* raise RuntimeError(message)
RaisedRuntimeError(message) == [raised |-> message]

\* What the server, or the connection, answers to the one request of a send
\* call: urlopen returns a 2xx response, or raises HTTPError (code, body) or
\* URLError (reason); the SDK client returns a response, or raises
\* APIStatusError (status_code, body, str), APIConnectionError or another
\* OpenAIError.
HttpOk(body) == [kind |-> "ok", status |-> 200, body |-> body]
HttpError(status, body) == [kind |-> "status", status |-> status, body |-> body]
ConnectionError(reason) == [kind |-> "connection", reason |-> reason]
OtherError(reason) == [kind |-> "other", reason |-> reason]

\* json.loads(body) of a response body, and _model_dump(response) of the
\* SDK's response object
JsonLoadsBody(body) ==
    IF body = "{\"id\": \"r1\"}" THEN [id |-> "r1"]
    ELSE IF body = "{\"id\": \"r2\", \"usage\": {}}" THEN [id |-> "r2", usage |-> EmptyDict]
    ELSE EmptyDict

OkBodies == {"{}", "{\"id\": \"r1\"}", "{\"id\": \"r2\", \"usage\": {}}"}

ErrorStatuses == {400, 401, 404, 429, 500, 503}

ErrorBodies == {"", "{\"error\": \"overloaded\"}", "Bad Gateway"}

Replies(p) ==
    {HttpOk(b) : b \in OkBodies}
    \cup {HttpError(s, b) : s \in ErrorStatuses, b \in ErrorBodies \cup
                                (IF p = "openai" THEN {None} ELSE {})}
    \cup {ConnectionError(r) : r \in {"timed out", "refused"}}
    \cup (IF p = "openai" THEN {OtherError("bad request object")} ELSE {})

\* The mutant of the except clauses: the response body is left out of the
\* error.
TransportErrorWithoutBody(p, reply) ==
    IF reply.kind = "status"
    THEN RaisedRuntimeError(ProviderName(p) \o " API error " \o ToString(reply.status))
    ELSE IF reply.kind = "connection"
    THEN RaisedRuntimeError(ProviderName(p) \o " API connection error: " \o reply.reason)
    ELSE RaisedRuntimeError(ProviderName(p) \o " API error: " \o reply.reason)

\* The except clauses of the send functions: HTTPError / APIStatusError,
\* URLError / APIConnectionError, and OpenAIError of the SDK adapter. The
\* SDK adapter's detail is str(exc), here "Error code: <status>", followed
\* by " | body=" and the body when the body is not None.
TransportError(p, reply) ==
    IF reply.kind = "status"
    THEN IF p = "openai"
         THEN RaisedRuntimeError(
                  "OpenAI API error " \o ToString(reply.status) \o ": "
                  \o "Error code: " \o ToString(reply.status)
                  \o (IF reply.body # None THEN " | body=" \o reply.body ELSE ""))
         ELSE RaisedRuntimeError(
                  ProviderName(p) \o " API error " \o ToString(reply.status) \o ": "
                  \o reply.body)
    ELSE IF reply.kind = "connection"
    THEN RaisedRuntimeError(ProviderName(p) \o " API connection error: " \o reply.reason)
    ELSE RaisedRuntimeError(ProviderName(p) \o " API error: " \o reply.reason)

\* A send call about to issue its request; args is the request payload.
InitTransport ==
    /\ provider \in {"grok", "anthropic", "openai_urllib", "openai"}
    /\ pc = "send"
    /\ \E model \in {"m0", "m1"}, s \in OptionalArg("stream", {TRUE, FALSE}) :
          args = Merge([model |-> model], s)
    /\ result = EmptyDict
    /\ effects = <<>>
    /\ events = <<>> /\ response_payload = EmptyDict /\ output_text = ""
    /\ IdleChunks /\ IdleSummary /\ IdleParser
    /\ IdleBatch

\* The one request of a send call, urllib.request.urlopen(request) or
\* client.responses.create(**payload), and what the call does with the
\* answer: on an error it raises; on a 2xx answer to a streaming request it
\* enters the streaming loop; otherwise it reads and returns the body.
\* events holds the answer received, effects the requests issued.
SendRequest ==
    /\ pc = "send"
    /\ \E reply \in Replies(provider) :
        /\ effects' = Append(effects,
                             IF provider = "openai" THEN "responses.create"
                             ELSE "urlopen")
        /\ events' = <<reply>>
        /\ IF reply.kind # "ok"
           THEN /\ result' = TransportError(provider, reply)
                /\ pc' = "raised"
                /\ UNCHANGED <<response_payload, output_text>>
           ELSE IF Has(args, "stream") /\ args.stream = TRUE
           THEN /\ pc' = "stream"
                /\ UNCHANGED <<result, response_payload, output_text>>
           ELSE /\ response_payload' = JsonLoadsBody(reply.body)
                /\ result' = Returned(response_payload')
                /\ output_text' = IF provider = "anthropic"
                                  THEN AnthropicExtractOutputText(response_payload')
                                  ELSE ""
                /\ pc' = "done"
    /\ UNCHANGED <<provider, args>>
    /\ UNCHANGED <<chunkVars, summaryVars, parserVars>>
    /\ UNCHANGED batchVars

NextTransport == SendRequest

SpecTransport == InitTransport /\ [][NextTransport]_vars

\* ------------------------------- streaming send: callbacks and debug sink

\* The events of an observed stream: for the chat adapters content, empty
\* content, reasoning, a chunk with two choices, an end and a usage chunk; for
\* Anthropic the events of block 0 and the message_delta; for OpenAI text
\* deltas, a summary delta, a done part and a completed event.
ObservedEvents(p) ==
    IF p \in {"grok", "fireworks"}
    THEN {ContentChunk([content |-> "a"], None),
          ContentChunk([role |-> "assistant", content |-> ""], None),
          ContentChunk([reasoning_content |-> "r"], None),
          [id |-> "c1", created |-> 1, model |-> "m1",
           choices |-> <<[index |-> 0, delta |-> [content |-> "a"],
                          finish_reason |-> None],
                         [index |-> 1, delta |-> [content |-> "b"],
                          finish_reason |-> None]>>],
          ContentChunk(EmptyDict, "stop"),
          [usage |-> Usage1, choices |-> <<>>]}
    ELSE IF p = "anthropic"
    THEN {e \in AnthropicEvents :
            e.event = None \/ (Has(e.data, "index") /\ e.data.index = 0)}
    ELSE {[type |-> "response.output_text.delta", delta |-> "a"],
          [type |-> "response.output_text.delta", delta |-> "b"],
          SummaryDelta(0, "x"), PartDone(0, "P"),
          [type |-> "response.completed", response |-> ResponseObject("S")]}

\* The callbacks and the sink a send call is given. A callback returns
\* normally at every call or raises at every call; None is left out.
\* The Anthropic send call takes a progress callback only; the OpenAI and the
\* Fireworks send call take sse_event_path; the Fireworks send call takes
\* stream_reasoning_callback.
ObserverArgs(p) ==
    {Merge(Merge(Merge(pr, tx), rs), sk) :
        pr \in OptionalArg("progress_callback", {"returns", "raises"}),
        tx \in IF p = "anthropic" THEN {EmptyDict}
               ELSE OptionalArg("stream_text_callback", {"returns", "raises"}),
        rs \in IF p = "fireworks"
               THEN OptionalArg("stream_reasoning_callback", {"returns", "raises"})
               ELSE {EmptyDict},
        sk \in IF p \in {"openai", "fireworks"}
               THEN OptionalArg("sse_event_path", {"tmp/sse.jsonl"})
               ELSE {EmptyDict}}

\* A call of a callback, made while event number n is processed
Call(op, value, n) == [op |-> op, value |-> value, event |-> n]

\* sse_handle.write(json.dumps(event)) and sse_handle.write("\n")
SinkWrite(event, n) == [op |-> "write", line |-> event, event |-> n]

\* sse_handle.close()
SinkClose == [op |-> "close"]

\* The text of an Anthropic event that the send loop counts: the text of a
\* content_block_delta whose delta is a text_delta, as a list.
AnthropicProgressDelta(event) ==
    IF /\ AnthropicEventType(event) = "content_block_delta"
       /\ Has(event.data, "delta")
       /\ Has(event.data.delta, "type") /\ event.data.delta.type = "text_delta"
       /\ Has(event.data.delta, "text")
    THEN <<event.data.delta.text>> ELSE <<>>

\* The strings of one event that a send loop adds to streamed_chars
CountedTexts(p, event) ==
    IF p = "anthropic" THEN AnthropicProgressDelta(event)
    ELSE IF p = "openai" THEN OpenAITextDelta(event)
    ELSE ChatDeltas(IF Has(event, "choices") THEN event.choices ELSE <<>>,
                    "content", p = "fireworks")

RECURSIVE StreamedChars(_, _)
\* streamed_chars after the events evs
StreamedChars(p, evs) ==
    IF evs = <<>> THEN 0
    ELSE StreamedChars(p, SubSeq(evs, 1, Len(evs) - 1))
         + Len(Join(CountedTexts(p, evs[Len(evs)])))

RECURSIVE TextCallsPerDelta(_, _, _, _)
\* The mutant of the callback calls: the progress callback is handed the
\* length of the one string.
TextCallsPerDelta(a, texts, streamed, n) ==
    IF texts = <<>> THEN <<>>
    ELSE (IF Has(a, "stream_text_callback")
          THEN <<Call("stream_text_callback", Head(texts), n)>> ELSE <<>>)
         \o (IF Has(a, "progress_callback")
             THEN <<Call("progress_callback", Len(Head(texts)), n)>> ELSE <<>>)
         \o TextCallsPerDelta(a, Tail(texts), streamed, n)

RECURSIVE TextCalls(_, _, _, _)
\* "streamed_chars += len(text)", stream_text_callback(text) and
\* progress_callback(streamed_chars) for the strings of one event
TextCalls(a, texts, streamed, n) ==
    IF texts = <<>> THEN <<>>
    ELSE LET count == streamed + Len(Head(texts))
         IN (IF Has(a, "stream_text_callback")
             THEN <<Call("stream_text_callback", Head(texts), n)>> ELSE <<>>)
            \o (IF Has(a, "progress_callback")
                THEN <<Call("progress_callback", count, n)>> ELSE <<>>)
            \o TextCalls(a, Tail(texts), count, n)

RECURSIVE FireworksCalls(_, _, _, _)
\* "for choice in choices" of the Fireworks send loop: the reasoning callback,
\* then the text and the progress callback, choice by choice
FireworksCalls(a, choices, streamed, n) ==
    IF choices = <<>> THEN <<>>
    ELSE LET one == <<Head(choices)>>
             reasoning == ChatDeltas(one, "reasoning_content", TRUE)
             content == ChatDeltas(one, "content", TRUE)
         IN (IF reasoning # <<>> /\ Has(a, "stream_reasoning_callback")
             THEN <<Call("stream_reasoning_callback", reasoning[1], n)>> ELSE <<>>)
            \o TextCalls(a, content, streamed, n)
            \o FireworksCalls(a, Tail(choices), streamed + Len(Join(content)), n)

\* The callbacks the loop body calls for event number n, in order
CallsFor(p, a, event, streamed, n) ==
    IF p = "fireworks"
    THEN FireworksCalls(a, IF Has(event, "choices") THEN event.choices ELSE <<>>,
                        streamed, n)
    ELSE TextCalls(a, CountedTexts(p, event), streamed, n)

\* The first call of the list whose callback raises; 0 when none does.
FirstRaise(a, calls) ==
    LET raising == {k \in 1..Len(calls) : a[calls[k].op] = "raises"}
    IN IF raising = {} THEN 0 ELSE CHOOSE k \in raising : \A j \in raising : k <= j

\* The mutant of the loop body: the sink is written after the callbacks.
EventEffectsWriteLast(write, calls, k) ==
    IF k = 0 THEN calls \o write ELSE SubSeq(calls, 1, k)

\* What one iteration of the loop does outside the call, in order: the line
\* is written to the sink, then the callbacks are called, up to the one that
\* raises.
EventEffects(write, calls, k) ==
    write \o (IF k = 0 THEN calls ELSE SubSeq(calls, 1, k))

\* "finally: if sse_handle is not None: sse_handle.close()"
Finally(a) == IF Has(a, "sse_event_path") THEN <<SinkClose>> ELSE <<>>

\* An exception that leaves the send call: the Fireworks adapter wraps every
\* Exception in a RuntimeError; the except clauses of the other adapters
\* catch transport errors only, so an exception of a callback leaves as it is.
Propagated(p, message) ==
    IF p = "fireworks" THEN RaisedRuntimeError("Fireworks API error: " \o message)
    ELSE [raised |-> message]

InitObserved ==
    /\ provider \in {"grok", "anthropic", "openai", "fireworks"}
    /\ pc = "observe"
    /\ args \in ObserverArgs(provider)
    /\ result = EmptyDict
    /\ effects = <<>>
    /\ events = <<>> /\ response_payload = EmptyDict /\ output_text = ""
    /\ IdleChunks /\ IdleSummary /\ IdleParser
    /\ IdleBatch

\* One iteration of the event loop of a streaming send call with its sink
\* and its callbacks. effects holds the sink writes, the callback calls and
\* the close of the sink, in the order they are made.
ObservedReceive ==
    /\ pc = "observe"
    /\ Len(events) < MaxObserved
    /\ \E event \in ObservedEvents(provider) :
        LET n == Len(events) + 1
            write == IF Has(args, "sse_event_path")
                     THEN <<SinkWrite(event, n)>> ELSE <<>>
            calls == CallsFor(provider, args, event,
                              StreamedChars(provider, events), n)
            k == FirstRaise(args, calls)
            choices == IF Has(event, "choices") THEN event.choices ELSE <<>>
            st == OpenAIStep(provider,
                             [summary_chunks |-> summary_chunks,
                              summary_done |-> summary_done,
                              response_payload |-> response_payload], event)
        IN /\ events' = Append(events, event)
           /\ IF k = 0
              THEN /\ effects' = effects \o EventEffects(write, calls, k)
                   /\ UNCHANGED <<pc, result>>
                   /\ IF provider = "fireworks"
                      THEN /\ reasoning_chunks' = reasoning_chunks
                                  \o ChatDeltas(choices, "reasoning_content", TRUE)
                           /\ content_chunks' = content_chunks
                                  \o ChatDeltas(choices, "content", TRUE)
                      ELSE UNCHANGED <<content_chunks, reasoning_chunks>>
                   /\ IF provider = "openai"
                      THEN /\ summary_chunks' = st.summary_chunks
                           /\ summary_done' = st.summary_done
                           /\ response_payload' = st.response_payload
                      ELSE UNCHANGED <<summaryVars, response_payload>>
              ELSE /\ effects' = effects \o EventEffects(write, calls, k)
                                 \o Finally(args)
                   /\ pc' = "raised"
                   /\ result' = Propagated(provider, "callback failed")
                   /\ UNCHANGED <<content_chunks, reasoning_chunks, summaryVars,
                                  response_payload>>
    /\ UNCHANGED <<provider, output_text, streamed_chunks, parserVars, args>>
    /\ UNCHANGED batchVars

\* The stream raises while the loop waits for the next event: the sink is
\* closed and the error leaves the call (the SDK adapters wrap it).
ObservedStreamError ==
    /\ pc = "observe"
    /\ effects' = effects \o Finally(args)
    /\ result' = IF provider = "openai"
                 THEN TransportError(provider, ConnectionError("stream dropped"))
                 ELSE Propagated(provider, "stream dropped")
    /\ pc' = "raised"
    /\ UNCHANGED <<provider, events, response_payload, output_text, args>>
    /\ UNCHANGED <<chunkVars, summaryVars, parserVars>>
    /\ UNCHANGED batchVars

\* The send call after the loop: the sink is closed; OpenAI returns the
\* captured response or {}; the others reconstruct the payload, and Grok and
\* Anthropic call progress_callback(len(output_text)) when the text is not
\* empty.
ObservedReturn ==
    /\ pc = "observe"
    /\ response_payload' =
          IF provider = "openai" THEN response_payload
          ELSE IF provider = "fireworks"
          THEN FireworksReconstruct(events, content_chunks, reasoning_chunks)
          ELSE IF provider = "grok" THEN GrokReconstruct(events)
          ELSE AnthropicReconstruct(events)
    /\ output_text' =
          IF provider = "grok" THEN ChatExtractOutputText(response_payload')
          ELSE IF provider = "anthropic"
          THEN AnthropicExtractOutputText(response_payload')
          ELSE output_text
    /\ LET last == IF /\ provider \in {"grok", "anthropic"}
                      /\ Has(args, "progress_callback") /\ output_text' # ""
                   THEN <<Call("progress_callback", Len(output_text'),
                               Len(events) + 1)>>
                   ELSE <<>>
       IN /\ effects' = effects \o Finally(args) \o last
          /\ IF FirstRaise(args, last) = 0
             THEN /\ result' = Returned(response_payload')
                  /\ pc' = "done"
             ELSE /\ result' = Propagated(provider, "callback failed")
                  /\ pc' = "raised"
    /\ UNCHANGED <<provider, events, args>>
    /\ UNCHANGED <<chunkVars, summaryVars, parserVars>>
    /\ UNCHANGED batchVars

NextObserved == ObservedReceive \/ ObservedStreamError \/ ObservedReturn

SpecObserved == InitObserved /\ [][NextObserved]_vars

\* ------------------------------------------------------ the response store

\* ModelSpec(provider, model, display_name, runner_provider) of the batch
\* runner; display_name is only printed.
ModelSpec(p, model, runner_provider) ==
    [provider |-> p, model |-> model, runner_provider |-> runner_provider]

\* MODEL_PROVIDERS of the Fireworks adapter
ModelProviders ==
    [m \in DOMAIN ModelDefaults("fireworks") |->
        IF m \in {"accounts/fireworks/models/deepseek-v3p2",
                  "accounts/fireworks/models/deepseek-v3-0324"} THEN "deepseek"
        ELSE IF m \in {"accounts/fireworks/models/qwen3-vl-235b-a22b-thinking",
                       "accounts/fireworks/models/qwen2p5-vl-32b-instruct"} THEN "qwen"
        ELSE IF m \in {"accounts/fireworks/models/kimi-k2p5",
                       "accounts/fireworks/models/kimi-k2-instruct-0905"} THEN "kimi"
        ELSE "meta"]

\* provider_for_model(model) of the Fireworks adapter
ProviderForModel(model) ==
    LET model_id == ResolveModel("fireworks", model)
    IN IF model_id \in DOMAIN ModelProviders THEN ModelProviders[model_id]
       ELSE "fireworks"

\* storage_model_name(model) of the Fireworks adapter
StorageModelName(model) ==
    LET aliases == {a \in DOMAIN CanonicalModels : CanonicalModels[a] = model}
    IN IF model \in DOMAIN CanonicalModels THEN model
       ELSE IF aliases # {} THEN CHOOSE a \in aliases : TRUE
       ELSE model

\* The provider and model a run_*_puzzle stores its records under: its own
\* name and the model argument, or for Fireworks the publisher and the alias
\* of the resolved model.
StorageOf(runner_provider, model) ==
    IF runner_provider = "fireworks"
    THEN LET model_id == ResolveModel("fireworks", model)
         IN [provider |-> ProviderForModel(model_id),
             model |-> StorageModelName(model_id)]
    ELSE [provider |-> runner_provider, model |-> model]

\* The mutant of ResponseStore._provider_dir: one directory for every model.
ProviderDirShared(p, model) == <<"responses", "responses">>

\* ResponseStore._provider_dir(provider, model): base_dir / provider / model
ProviderDir(p, model) == <<p, model>>

\* A path below the directory of a provider and model
StorePath(p, model, name) == Append(ProviderDir(p, model), name)

\* handle.write(json.dumps(record, ensure_ascii=True)): the text of one record,
\* which holds no line break
JsonDumps(record) == [json |-> record]

\* handle.write("\n")
Newline == [newline |-> TRUE]

\* One handle.write(text) on a file opened with mode "a": the file is created
\* when missing and the text lands after what the file holds.
AppendText(store, path, text) ==
    Put(store, path, Append(IF Has(store, path) THEN store[path] ELSE <<>>, text))

\* _base_record(run_id, created_at, provider, model, puzzle_name,
\* puzzle_version, special_settings); the time stamp and the settings label
\* are left out.
BaseRecord(run_id, p, model, puzzle_name, puzzle_version) ==
    [run_id |-> run_id, provider |-> p, model |-> model,
     puzzle_name |-> puzzle_name, puzzle_version |-> puzzle_version]

RECURSIVE SplitLines(_, _)
\* "for line in f": the lines of a file, the last one also when no line break
\* ends it; line is what was read of the current line.
SplitLines(text, line) ==
    IF text = <<>> THEN (IF line = <<>> THEN <<>> ELSE <<line>>)
    ELSE IF Head(text) = Newline
    THEN <<line>> \o SplitLines(Tail(text), <<>>)
    ELSE SplitLines(Tail(text), Append(line, Head(text)))

\* json.loads(line) succeeds: the line is the text of exactly one record
Decodes(line) == Len(line) = 1 /\ Has(line[1], "json")

\* json.loads(line) of a line that decodes
JsonLoadsLine(line) == line[1].json

\* ------------------------------------------------------------ puzzle runs

\* RUNNER_MAP of the batch runner: the providers with a run_*_puzzle
RunnerMap == {"openai", "anthropic", "gemini", "grok", "fireworks"}

\* STREAM_DEFAULTS.get(runner_provider, True)
StreamDefaults(runner_provider) == runner_provider # "grok"

\* REASONING_MODELS of the OpenAI adapter
OpenAIReasoningModels == {"o3-2025-04-16", "gpt-5.2-2025-12-11"}

\* The puzzle every run of the model loads
PuzzleName == "trolley"

\* The versions a puzzle fixture declares: none, or a string
PuzzleVersions == {None, "1.0"}

\* One call of a run_*_puzzle: its arguments, the run id it draws, and how
\* far it got: the request payload it built, the payloads it sent, the
\* response it received and the message of the exception it raised; in a
\* batch, whether its result was added to the list of results.
NewRun(spec, run_id, stream, dry_run, debug_sse, puzzle_version) ==
    [spec |-> spec, run_id |-> run_id, stream |-> stream, dry_run |-> dry_run,
     debug_sse |-> debug_sse, puzzle_version |-> puzzle_version,
     pc |-> "queued", request |-> EmptyDict, sent |-> <<>>,
     response |-> EmptyDict, error |-> None, collected |-> FALSE]

\* run_*_puzzle up to the request payload: the debug_sse check, the default
\* reasoning block, the request builder of the adapter.
RunBuild(run) ==
    LET p == run.spec.runner_provider
        a == [model |-> run.spec.model, stream |-> run.stream]
    IN IF run.debug_sse /\ ~run.stream
       THEN RaisedValueError("debug_sse requires stream=True")
       ELSE IF p = "openai"
       THEN BuildResponseRequest(
                IF a.model \in OpenAIReasoningModels
                THEN Put(a, "reasoning", [effort |-> "high", summary |-> "detailed"])
                ELSE a)
       ELSE IF p = "anthropic" THEN BuildMessagesRequest(WithDefaultThinking(a))
       ELSE BuildChatCompletionRequest(p, a)

\* The _base_record of a run
RunRecord(run) ==
    LET s == StorageOf(run.spec.runner_provider, run.spec.model)
    IN BaseRecord(run.run_id, s.provider, s.model, PuzzleName, run.puzzle_version)

\* The file of a run in the store
RunPath(run, name) ==
    LET s == StorageOf(run.spec.runner_provider, run.spec.model)
    IN StorePath(s.provider, s.model, name)

\* The mutant of record_request: nothing is written before the send.
RecordRequestSkipped(store, run, payload) == store

\* ResponseStore.record_request up to the first write of _append_jsonl
RecordRequest(store, run, payload) ==
    AppendText(store, RunPath(run, "requests.jsonl"),
               JsonDumps(Put(RunRecord(run), "request", payload)))

\* ResponseStore.record_response up to the first write of _append_jsonl
RecordResponse(store, run) ==
    AppendText(store, RunPath(run, "responses.jsonl"),
               JsonDumps(Put(Put(RunRecord(run), "request", run.request),
                             "response", run.response)))

\* A run that is between its first step and its return
InFlight(run) == run.pc \in {"request_open", "recorded", "sent", "response_open"}

\* A run that returned or raised
Finished(run) == run.pc \in {"completed", "failed"}

\* run_single_model: the ModelRunResult of a finished run
RunSingleModel(run) ==
    [spec |-> run.spec,
     status |-> IF run.pc = "completed" THEN "COMPLETED" ELSE "FAILED",
     error |-> run.error]

\* The result of the run of position i was added to the list of results
Collected(rs, i) == rs[i].collected

\* max_workers of run_parallel_all
MaxWorkers == 30

\* The mutant of the scheduling: a queued run starts at any time.
CanStartAnyTime(mode, rs, i) == TRUE

\* When the run of position i may start. run_sequential: after the result of
\* every earlier spec was appended; run_provider_queue: after every earlier
\* spec of the same runner_provider finished; run_parallel_all: when one of
\* the max_workers threads is free.
CanStart(mode, rs, i) ==
    IF mode = "sequential"
    THEN \A j \in 1..(i - 1) : Collected(rs, j)
    ELSE IF mode = "parallel-provider"
    THEN \A j \in 1..(i - 1) :
            rs[j].spec.runner_provider = rs[i].spec.runner_provider
                => Finished(rs[j])
    ELSE Cardinality({j \in DOMAIN rs : InFlight(rs[j])}) < MaxWorkers

\* The first step of a run: run_single_model looks the runner up; the runner
\* loads the fixtures, builds the request and, unless debug_sse, makes the
\* first write of record_request.
RunStart(i) ==
    /\ i \in DOMAIN runs
    /\ runs[i].pc = "queued"
    /\ pc = "running" => CanStart(args.mode, runs, i)
    /\ LET run == runs[i]
           built == RunBuild(run)
       IN IF pc = "running" /\ run.spec.runner_provider \notin RunnerMap
          THEN /\ runs' = [runs EXCEPT ![i] =
                    [run EXCEPT !.pc = "failed",
                                !.error = "Unknown runner provider: "
                                          \o run.spec.runner_provider]]
               /\ UNCHANGED files
          ELSE IF Has(built, "raised")
          THEN /\ runs' = [runs EXCEPT ![i] =
                    [run EXCEPT !.pc = "failed", !.error = built.raised]]
               /\ UNCHANGED files
          ELSE IF run.debug_sse
          THEN /\ runs' = [runs EXCEPT ![i] =
                    [run EXCEPT !.request = built.payload,
                                !.pc = IF run.dry_run THEN "completed"
                                       ELSE "recorded"]]
               /\ UNCHANGED files
          ELSE /\ runs' = [runs EXCEPT ![i] =
                    [run EXCEPT !.request = built.payload, !.pc = "request_open"]]
               /\ files' = RecordRequest(files, run, built.payload)
    /\ UNCHANGED <<provider, pc, events, response_payload, output_text>>
    /\ UNCHANGED <<chunkVars, summaryVars, parserVars, callVars, results>>

\* The second write of _append_jsonl in record_request, then
\* "if dry_run: return RunResult(...)"
RunRequestNewline(i) ==
    /\ i \in DOMAIN runs
    /\ runs[i].pc = "request_open"
    /\ files' = AppendText(files, RunPath(runs[i], "requests.jsonl"), Newline)
    /\ runs' = [runs EXCEPT ![i].pc =
                    IF runs[i].dry_run THEN "completed" ELSE "recorded"]
    /\ UNCHANGED <<provider, pc, events, response_payload, output_text>>
    /\ UNCHANGED <<chunkVars, summaryVars, parserVars, callVars, results>>

\* The send_* call of the runner with the request payload: it returns the
\* response payload or raises.
RunSend(i) ==
    /\ i \in DOMAIN runs
    /\ runs[i].pc = "recorded"
    /\ \E outcome \in {"returns", "raises"} :
          runs' = [runs EXCEPT ![i] =
              IF outcome = "returns"
              THEN [runs[i] EXCEPT !.sent = Append(@, runs[i].request),
                                   !.response = [id |-> "response"],
                                   !.pc = "sent"]
              ELSE [runs[i] EXCEPT !.sent = Append(@, runs[i].request),
                                   !.error = "API connection error",
                                   !.pc = "failed"]]
    /\ UNCHANGED <<provider, pc, events, response_payload, output_text>>
    /\ UNCHANGED <<chunkVars, summaryVars, parserVars, callVars, results, files>>

\* After the send: the derived fields are computed, which may raise, then
\* "if store is not None: store.record_response(...)" up to the first write.
RunRecordResponse(i) ==
    /\ i \in DOMAIN runs
    /\ runs[i].pc = "sent"
    /\ \E derived \in {"returns", "raises"} :
          IF derived = "raises"
          THEN /\ runs' = [runs EXCEPT ![i] =
                    [runs[i] EXCEPT !.error = "derivation failed", !.pc = "failed"]]
               /\ UNCHANGED files
          ELSE IF runs[i].debug_sse
          THEN /\ runs' = [runs EXCEPT ![i].pc = "completed"]
               /\ UNCHANGED files
          ELSE /\ runs' = [runs EXCEPT ![i].pc = "response_open"]
               /\ files' = RecordResponse(files, runs[i])
    /\ UNCHANGED <<provider, pc, events, response_payload, output_text>>
    /\ UNCHANGED <<chunkVars, summaryVars, parserVars, callVars, results>>

\* The second write of _append_jsonl in record_response; the runner returns
\* its RunResult.
RunResponseNewline(i) ==
    /\ i \in DOMAIN runs
    /\ runs[i].pc = "response_open"
    /\ files' = AppendText(files, RunPath(runs[i], "responses.jsonl"), Newline)
    /\ runs' = [runs EXCEPT ![i].pc = "completed"]
    /\ UNCHANGED <<provider, pc, events, response_payload, output_text>>
    /\ UNCHANGED <<chunkVars, summaryVars, parserVars, callVars, results>>

\* The records an earlier run left in the directory of a spec: one request
\* line and one response line.
StoredRecord(spec, puzzle_name, puzzle_version) ==
    BaseRecord("earlier", spec.provider, spec.model, puzzle_name, puzzle_version)

Stored(store, spec, puzzle_name, puzzle_version) ==
    LET record == Put(StoredRecord(spec, puzzle_name, puzzle_version),
                      "request", [model |-> spec.model])
    IN Put(Put(store,
               StorePath(spec.provider, spec.model, "requests.jsonl"),
               <<JsonDumps(record), Newline>>),
           StorePath(spec.provider, spec.model, "responses.jsonl"),
           <<JsonDumps(Put(record, "response", [id |-> "earlier"])), Newline>>)

\* The specs of the runs of one run_*_puzzle call: a catalog model of each
\* modelled runner and a model the OpenAI catalog does not know.
PuzzleRunSpecs ==
    {ModelSpec("openai", "o3-2025-04-16", "openai"),
     ModelSpec("openai", "unknown-model", "openai"),
     ModelSpec("anthropic", "claude-opus-4-5-20251101", "anthropic"),
     ModelSpec("grok", "grok-3", "grok"),
     ModelSpec("deepseek", "deepseek-v3p2", "fireworks")}

\* One call of a run_*_puzzle on a store that is empty or holds the records of
\* an earlier run of the same model.
InitPersist ==
    /\ provider = "runner"
    /\ pc = "run_puzzle"
    /\ args = EmptyDict
    /\ result = EmptyDict
    /\ effects = <<>>
    /\ results = <<>>
    /\ \E spec \in PuzzleRunSpecs, stream \in BOOLEAN, dry_run \in BOOLEAN,
          debug_sse \in BOOLEAN, version \in PuzzleVersions, earlier \in BOOLEAN :
          /\ runs = <<NewRun(spec, "run-1", stream, dry_run, debug_sse, version)>>
          /\ files = IF earlier THEN Stored(EmptyDict, spec, PuzzleName, version)
                     ELSE EmptyDict
    /\ events = <<>> /\ response_payload = EmptyDict /\ output_text = ""
    /\ IdleChunks /\ IdleSummary /\ IdleParser

NextPersist ==
    \E i \in DOMAIN runs :
        \/ RunStart(i)
        \/ RunRequestNewline(i)
        \/ RunSend(i)
        \/ RunRecordResponse(i)
        \/ RunResponseNewline(i)

SpecPersist == InitPersist /\ [][NextPersist]_vars

\* -------------------------------------------------------------- the batch

\* The elements of a list
Range(seq) == {seq[k] : k \in DOMAIN seq}

\* ExecutionMode of the batch runner
ExecutionModes == {"sequential", "parallel-provider", "parallel-all"}

\* The mutant of find_existing_responses: the puzzle name is not compared.
FindExistingResponsesAnyPuzzle(puzzle_name, puzzle_version, store) ==
    {<<path[1], path[2]>> : path \in {path \in DOMAIN store :
        /\ Len(path) >= 3
        /\ path[Len(path)] = "responses.jsonl"
        /\ \E line \in Range(SplitLines(store[path], <<>>)) : Decodes(line)}}

\* find_existing_responses(puzzle_name, puzzle_version, responses_dir): the
\* (provider, model) of every responses.jsonl with a line that decodes to a
\* record of the puzzle name and, when a version is given, of that version.
FindExistingResponses(puzzle_name, puzzle_version, store) ==
    {<<path[1], path[2]>> : path \in {path \in DOMAIN store :
        /\ Len(path) >= 3
        /\ path[Len(path)] = "responses.jsonl"
        /\ \E line \in Range(SplitLines(store[path], <<>>)) :
              /\ Decodes(line)
              /\ LET record == JsonLoadsLine(line)
                 IN /\ Has(record, "puzzle_name")
                    /\ record.puzzle_name = puzzle_name
                    /\ puzzle_version # None =>
                          /\ Has(record, "puzzle_version")
                          /\ record.puzzle_version = puzzle_version}}

\* run_batch, "if resume:": the specs without an existing response, in order
SpecsToRun(specs, existing) ==
    LET Missing(spec) == <<spec.provider, spec.model>> \notin existing
    IN SelectSeq(specs, Missing)

\* The mutant of run_provider_queue: the queue of a provider stops at the
\* first run that failed.
ProviderResultsUntilFailure(rs, p) ==
    LET queue == SelectSeq(rs, LAMBDA run : run.spec.runner_provider = p)
        failed == {k \in DOMAIN queue : queue[k].pc = "failed"}
        last == IF failed = {} THEN Len(queue)
                ELSE CHOOSE k \in failed : \A l \in failed : k <= l
    IN [k \in 1..last |-> RunSingleModel(queue[k])]

\* run_provider_queue(provider, queue): the results of the runs of one
\* runner_provider, in queue order
ProviderResults(rs, p) ==
    LET queue == SelectSeq(rs, LAMBDA run : run.spec.runner_provider = p)
    IN [k \in 1..Len(queue) |-> RunSingleModel(queue[k])]

\* The specs a batch is drawn from: two models of one runner and a model of
\* another, as enumerate_all_models builds them.
BatchCandidates ==
    {ModelSpec("openai", "o3-2025-04-16", "openai"),
     ModelSpec("openai", "gpt-4o-2024-05-13", "openai"),
     ModelSpec(ProviderForModel("deepseek-v3p2"), StorageModelName("deepseek-v3p2"),
               "fireworks")}

\* The lists of specs handed to run_batch: no spec twice
SpecLists ==
    {specs \in SeqsUpTo(BatchCandidates, MaxSpecs) :
        /\ specs # <<>>
        /\ \A i, j \in DOMAIN specs : specs[i] = specs[j] => i = j}

\* What the records of earlier runs in the store are about: the puzzle of the
\* batch in its version or in an earlier one, or another puzzle.
StoredKinds ==
    {[puzzle_name |-> PuzzleName, puzzle_version |-> "1.0"],
     [puzzle_name |-> PuzzleName, puzzle_version |-> "0.9"],
     [puzzle_name |-> "other", puzzle_version |-> "1.0"]}

RECURSIVE StoreWith(_, _)
\* The store with the records of an earlier run for each of the specs
StoreWith(specs, kind) ==
    IF specs = {} THEN EmptyDict
    ELSE LET spec == CHOOSE spec \in specs : TRUE
         IN Stored(StoreWith(specs \ {spec}, kind), spec,
                   kind.puzzle_name, kind.puzzle_version)

Stores == {StoreWith(specs, kind) : specs \in SUBSET BatchCandidates, kind \in StoredKinds}

\* A call of run_batch. The store is read only under resume: there it holds
\* any of the earlier records, otherwise it starts empty.
InitBatch ==
    /\ provider = "batch"
    /\ pc = "batch"
    /\ \E version \in PuzzleVersions, specs \in SpecLists, mode \in ExecutionModes,
          resume \in BOOLEAN, dry_run \in BOOLEAN :
          args = [puzzle_name |-> PuzzleName, puzzle_version |-> version,
                  specs |-> specs, mode |-> mode, resume |-> resume,
                  dry_run |-> dry_run]
    /\ files \in IF args.resume THEN Stores ELSE {EmptyDict}
    /\ runs = <<>>
    /\ results = <<>>
    /\ result = EmptyDict
    /\ effects = <<>>
    /\ events = <<>> /\ response_payload = EmptyDict /\ output_text = ""
    /\ IdleChunks /\ IdleSummary /\ IdleParser

\* run_batch up to the dispatch on the mode: the resume filter, "if not
\* specs: return []", "if dry_run: return []"; else one queued run per spec,
\* called as run_single_model calls it.
BatchStart ==
    /\ pc = "batch"
    /\ LET existing == IF args.resume
                       THEN FindExistingResponses(args.puzzle_name,
                                                  args.puzzle_version, files)
                       ELSE {}
           specs == SpecsToRun(args.specs, existing)
       IN IF specs = <<>> \/ args.dry_run
          THEN /\ pc' = "returned"
               /\ result' = [results |-> <<>>]
               /\ UNCHANGED runs
          ELSE /\ pc' = "running"
               /\ runs' = [i \in DOMAIN specs |->
                    NewRun(specs[i], "run-" \o ToString(i),
                           StreamDefaults(specs[i].runner_provider),
                           FALSE, FALSE, args.puzzle_version)]
               /\ UNCHANGED result
    /\ UNCHANGED <<provider, events, response_payload, output_text, args, effects>>
    /\ UNCHANGED <<chunkVars, summaryVars, parserVars, results, files>>

\* The result of a finished run reaches the list of results. run_sequential
\* and run_parallel_all append the result of one run; run_parallel_by_provider
\* extends the list by the results of a provider whose queue is through.
BatchCollect ==
    /\ pc = "running"
    /\ IF args.mode = "parallel-provider"
       THEN \E p \in {runs[i].spec.runner_provider : i \in DOMAIN runs} :
               LET queue == {i \in DOMAIN runs : runs[i].spec.runner_provider = p}
               IN /\ \A i \in queue : Finished(runs[i]) /\ ~Collected(runs, i)
                  /\ results' = results \o ProviderResults(runs, p)
                  /\ runs' = [i \in DOMAIN runs |->
                        IF i \in queue THEN [runs[i] EXCEPT !.collected = TRUE]
                        ELSE runs[i]]
       ELSE \E i \in DOMAIN runs :
               /\ Finished(runs[i]) /\ ~Collected(runs, i)
               /\ results' = Append(results, RunSingleModel(runs[i]))
               /\ runs' = [runs EXCEPT ![i].collected = TRUE]
    /\ UNCHANGED <<provider, pc, events, response_payload, output_text>>
    /\ UNCHANGED <<chunkVars, summaryVars, parserVars, callVars, files>>

\* run_batch returns the results once every run was collected
BatchReturn ==
    /\ pc = "running"
    /\ \A i \in DOMAIN runs : Collected(runs, i)
    /\ pc' = "returned"
    /\ result' = [results |-> results]
    /\ UNCHANGED <<provider, events, response_payload, output_text, args, effects>>
    /\ UNCHANGED <<chunkVars, summaryVars, parserVars, batchVars>>

NextBatch ==
    \/ BatchStart
    \/ \E i \in DOMAIN runs :
          \/ RunStart(i)
          \/ RunRequestNewline(i)
          \/ RunSend(i)
          \/ RunRecordResponse(i)
          \/ RunResponseNewline(i)
    \/ BatchCollect
    \/ BatchReturn

SpecBatch == InitBatch /\ [][NextBatch]_vars

\* ======================================================== properties

\* ------------------------------------------- Anthropic stream reconstruction

IsBlockStart(event, i) ==
    /\ AnthropicEventType(event) = "content_block_start"
    /\ event.data.index = i

IsBlockDelta(event, i) ==
    /\ AnthropicEventType(event) = "content_block_delta"
    /\ event.data.index = i

\* The indices that received a start or a delta.
Touched(evs) ==
    {i \in BlockIndices :
        \E k \in 1..Len(evs) : IsBlockStart(evs[k], i) \/ IsBlockDelta(evs[k], i)}

\* The position in the content array of the block of index i.
Rank(i, S) == Cardinality({j \in S : j <= i})

\* The block the returned payload holds for index i.
BlockAt(i) == response_payload.content[Rank(i, Touched(events))]

FieldOf(block, field) == IF Has(block, field) THEN block[field] ELSE ""

RECURSIVE DeltasFrom(_, _, _, _)
\* The concatenation, in arrival order, of the deltas of one field received
\* for index i at positions k, k+1, ...
DeltasFrom(evs, k, i, field) ==
    IF k > Len(evs) THEN ""
    ELSE (IF IsBlockDelta(evs[k], i) /\ Has(evs[k].data.delta, field)
          THEN evs[k].data.delta[field] ELSE "")
         \o DeltasFrom(evs, k + 1, i, field)

\* The position of the last content_block_start for index i, 0 if none.
LastStart(evs, i) ==
    LET S == {k \in 1..Len(evs) : IsBlockStart(evs[k], i)}
    IN IF S = {} THEN 0 ELSE CHOOSE k \in S : \A l \in S : l <= k

\* What the block of index i holds in a field: what its last start declared,
\* then every delta received after that start.
SinceLastStart(evs, i, field) ==
    LET k == LastStart(evs, i)
    IN (IF k = 0 THEN "" ELSE FieldOf(evs[k].data.content_block, field))
       \o DeltasFrom(evs, k + 1, i, field)

\* C1 as stated: for any event sequence, the text (thinking) of the block at
\* index i is the concatenation, in arrival order, of every text_delta
\* (thinking_delta) received for index i.
C1_EveryDeltaKept ==
    pc = "done" =>
        \A i \in Touched(events) :
            /\ FieldOf(BlockAt(i), "text") = DeltasFrom(events, 1, i, "text")
            /\ FieldOf(BlockAt(i), "thinking") = DeltasFrom(events, 1, i, "thinking")

\* C1 amended: the text (thinking) of the block at index i is what the last
\* content_block_start for i declared, followed by the concatenation, in
\* arrival order, of every text_delta (thinking_delta) received for i after
\* that start; no such delta is dropped, replaced, reordered or duplicated.
C1_DeltasSinceStartKept ==
    pc = "done" =>
        \A i \in Touched(events) :
            /\ FieldOf(BlockAt(i), "text") = SinceLastStart(events, i, "text")
            /\ FieldOf(BlockAt(i), "thinking") = SinceLastStart(events, i, "thinking")

\* C1 witness: after a start, index 0 received "a" and then "b" with a
\* message_delta between them, and the call returned.
C1_Witness ==
    /\ pc = "done"
    /\ Len(events) = 4
    /\ IsBlockStart(events[1], 0)
    /\ IsBlockDelta(events[2], 0) /\ events[2].data.delta = [type |-> "text_delta", text |-> "a"]
    /\ AnthropicEventType(events[3]) = "message_delta"
    /\ IsBlockDelta(events[4], 0) /\ events[4].data.delta = [type |-> "text_delta", text |-> "b"]
    /\ FieldOf(BlockAt(0), "text") = "ab"

\* C2: the content array holds one block per index that received a start or
\* a delta, by ascending index, whatever the arrival order.
C2_ContentByAscendingIndex ==
    pc = "done" /\ Touched(events) # {} =>
        LET blocks == AnthropicFold([response_payload |-> EmptyDict,
                                     content_blocks |-> EmptyDict], events).content_blocks
        IN /\ Len(response_payload.content) = Cardinality(Touched(events))
           /\ DOMAIN blocks = Touched(events)
           /\ \A i \in Touched(events) : BlockAt(i) = blocks[i]

\* C2 witness: the events of index 1 ("b") arrived before those of index 0
\* ("a"), and the content array is [block 0, block 1].
C2_Witness ==
    /\ pc = "done"
    /\ Len(events) = 4
    /\ IsBlockStart(events[1], 1) /\ IsBlockDelta(events[2], 1)
    /\ IsBlockStart(events[3], 0) /\ IsBlockDelta(events[4], 0)
    /\ Len(response_payload.content) = 2
    /\ response_payload.content[1] = [type |-> "text", text |-> "a"]
    /\ response_payload.content[2] = [type |-> "text", text |-> "b"]

RECURSIVE LatestUsage(_, _)
\* The usage of the equivalent non-streaming response: for each key, the
\* value of the last event that reported it.
LatestUsage(acc, evs) ==
    IF evs = <<>> THEN acc
    ELSE LET e == Head(evs)
             u == IF AnthropicEventType(e) = "message_start"
                  THEN e.data.message.usage
                  ELSE IF AnthropicEventType(e) = "message_delta"
                  THEN e.data.usage
                  ELSE EmptyDict
         IN LatestUsage([k \in DOMAIN acc \cup DOMAIN u |->
                            IF k \in DOMAIN u THEN u[k] ELSE acc[k]],
                        Tail(evs))

ReportsUsage(evs) ==
    \E k \in 1..Len(evs) :
        AnthropicEventType(evs[k]) \in {"message_start", "message_delta"}

\* C8: the usage breakdown of the reconstructed payload has the input and
\* output token counts of the equivalent non-streaming response: no token
\* figure an event reported is lost.
C8_NoTokenAccountingLost ==
    pc = "done" /\ ReportsUsage(events) =>
        AnthropicExtractUsageBreakdown(response_payload)
            = AnthropicExtractUsageBreakdown([usage |-> LatestUsage(EmptyDict, events)])

\* ------------------------------------------ Grok and Fireworks metadata

Carries(event, field) ==
    /\ Has(event, field)

\* The value of a top-level field in the last event that carried it.
LastCarried(evs, field) ==
    LET S == {k \in 1..Len(evs) : Carries(evs[k], field)}
    IN evs[CHOOSE k \in S : \A l \in S : l <= k][field]

\* The non-null finish reasons of the stream, in arrival order.
FinishReasons(evs) ==
    LET R(k) == IF Has(evs[k], "choices") /\ evs[k].choices # <<>>
                THEN evs[k].choices[1].finish_reason ELSE None
    IN SelectSeq([k \in 1..Len(evs) |-> R(k)], LAMBDA r : r # None)

\* The payload the adapter reconstructs from a chunk list.
ChatReconstructed(evs) ==
    IF provider = "grok" THEN GrokReconstruct(evs)
    ELSE FireworksReconstruct(evs, content_chunks, reasoning_chunks)

\* The stream with its k-th chunk delivered twice.
Replayed(evs, k) == SubSeq(evs, 1, k) \o SubSeq(evs, k, Len(evs))

IsBlank(line_bytes) == line_bytes # <<>> /\ \A k \in 1..Len(line_bytes) : line_bytes[k] \in {"\r", "\n"}

\* The positions of the wire that close an event: blank lines, end of stream.
Closers(w) == {k \in 1..Len(w) : w[k] = EndOfStream \/ IsBlank(w[k])}

\* The position after the closer that precedes position k.
GroupStart(w, k) ==
    LET before == {c \in Closers(w) : c < k}
    IN IF before = {} THEN 1 ELSE 1 + CHOOSE c \in before : \A d \in before : d <= c

IsDataLine(line_bytes) == line_bytes # <<>> /\ line_bytes[1] = "data:"
IsEventLine(line_bytes) == line_bytes # <<>> /\ line_bytes[1] = "event:"

\* The value of a field line: what follows the colon, without leading
\* spaces and without the line end.
ValueOf(line_bytes) ==
    LET body == SelectSeq(Tail(line_bytes), LAMBDA t : t \notin {"\r", "\n"})
        first == CHOOSE k \in 1..(Len(body) + 1) :
                    /\ \A j \in 1..(k - 1) : body[j] = " "
                    /\ k = Len(body) + 1 \/ body[k] # " "
    IN Join(SubSeq(body, first, Len(body)))

\* The data group closed at position k: its data values joined by newlines
\* and the value of its last event: line (None if it has none).
GroupAt(w, k) ==
    LET lines == SubSeq(w, GroupStart(w, k), k - 1)
        datas == SelectSeq(lines, IsDataLine)
        evts == SelectSeq(lines, IsEventLine)
    IN [lines |-> Len(datas),
        data |-> JoinWith("\n", [j \in 1..Len(datas) |-> ValueOf(datas[j])]),
        event |-> IF evts = <<>> THEN None ELSE ValueOf(evts[Len(evts)])]

\* The non-empty data groups of the wire, in wire order.
Groups(w) ==
    LET closers == SortedKeys(Closers(w))
        all == [j \in 1..Len(closers) |-> GroupAt(w, closers[j])]
    IN SelectSeq(all, LAMBDA g : g.lines > 0)

IsSentinel(g) == g.data = Sentinel
IsJson(g) == JsonLoads(g.data).valid

\* The event a data group stands for.
EventOf(p, g) ==
    IF p = "anthropic"
    THEN [event |-> g.event, data |-> JsonLoads(g.data).value]
    ELSE JsonLoads(g.data).value

\* The groups that come before the first sentinel.
BeforeSentinel(gs) ==
    LET S == {k \in 1..Len(gs) : IsSentinel(gs[k])}
    IN IF S = {} THEN gs
       ELSE SubSeq(gs, 1, (CHOOSE k \in S : \A l \in S : k <= l) - 1)

\* C4: a data group that is no JSON (and not the sentinel) makes the parser
\* raise an error whose message ends with the group's raw text; the events
\* yielded are those of the groups before it, none later, and the send call
\* raises: it returns no payload and reconstructs none.
C4_MalformedEventIsFatal ==
    LET gs == Groups(wire)
    IN \A k \in 1..Len(gs) :
          ~IsJson(gs[k]) /\ ~IsSentinel(gs[k]) =>
              /\ pc = "raised"
              /\ error = "Failed to parse " \o ProviderName(provider)
                           \o " stream event: " \o gs[k].data
              /\ k = Len(gs)
              /\ Len(events) = k - 1
              /\ provider \in {"grok", "anthropic"} => response_payload = EmptyDict
              /\ output_text = ""

\* C4 witness: the Grok parser yielded one event, then read the data line
\* "{not json" and raised.
C4_Witness ==
    /\ provider = "grok"
    /\ pc = "raised"
    /\ events = <<[id |-> "c2"]>>
    /\ Len(Groups(wire)) = 2
    /\ Groups(wire)[2].data = DocBroken
    /\ error = "Failed to parse Grok stream event: {not json"

\* C5: in every parser the sentinel ends the event sequence: once a data
\* group equal to [DONE] is closed the parser has stopped, and the events
\* yielded are those of the groups before it: none for the sentinel, none
\* for what follows it.
C5_SentinelEndsTheSequence ==
    LET gs == Groups(wire)
    IN (\E k \in 1..Len(gs) : IsSentinel(gs[k])) =>
          /\ pc \in {"exhausted", "done"}
          /\ Len(events) = Len(BeforeSentinel(gs))

\* The events of the groups up to the first one that is no JSON dict.
RECURSIVE EventsOf(_, _)
EventsOf(p, gs) ==
    IF gs = <<>> THEN <<>>
    ELSE IF ~JsonLoads(Head(gs).data).valid \/ ~JsonLoads(Head(gs).data).is_dict
    THEN <<>>
    ELSE <<EventOf(p, Head(gs))>> \o EventsOf(p, Tail(gs))

\* C6: the events yielded are exactly the non-empty data groups before the
\* sentinel, in wire order, each parsed as one event from its data lines
\* joined by newlines, and (Anthropic) each with the event: value of its own
\* group; blank lines without data, comments and other fields yield nothing.
C6_EventsAreTheDataGroups ==
    events = EventsOf(provider, BeforeSentinel(Groups(wire)))

\* C6 without the sentinel: the statement of C6 for the streams in which
\* the Anthropic parser reads no [DONE].
C6_EventsAreTheDataGroupsNoSentinel ==
    (provider = "anthropic" => \A k \in 1..Len(Groups(wire)) : ~IsSentinel(Groups(wire)[k]))
        => C6_EventsAreTheDataGroups

\* ------------------------------------------------ OpenAI Responses stream

IsTextDelta(event) == event.type = "response.output_text.delta"
IsCompleted(event) == event.type = "response.completed"

\* The stream is text deltas followed by one terminal completed event whose
\* response declares a text (not the empty one) other than their concatenation.
SnapshotCase ==
    /\ Len(events) >= 2
    /\ \A k \in 1..(Len(events) - 1) : IsTextDelta(events[k])
    /\ IsCompleted(events[Len(events)])
    /\ OpenAIExtractFromPayload(events[Len(events)].response)
          \notin {"", Join(streamed_chunks)}

\* C3: after text deltas and a completed event declaring another text, the
\* payload send_response_request returns is the response object, and the
\* text extracted (by the runner, and by extract_output_text on the stored
\* stream) is the snapshot's, never the concatenation of the deltas.
C3_SnapshotOverridesDeltas ==
    provider = "openai" /\ SnapshotCase =>
        LET snapshot == events[Len(events)].response
        IN /\ pc = "returned" => response_payload = snapshot
           /\ pc \in {"done", "extracted"} =>
                 output_text = OpenAIExtractFromPayload(snapshot)

\* The statement of C3 for the payload returned and the runner's text alone.
C3_SnapshotOverridesDeltasInRun ==
    pc # "extracted" => C3_SnapshotOverridesDeltas

\* The parts the adapter coalesces from what the send call captured.
Coalesced == SummaryParts(provider, summary_done, summary_chunks)

\* The parts that stand for a summary_index, as the list of their indices.
CoalescedIndices ==
    LET indexed == SelectSeq(Coalesced, LAMBDA part : part.index # {})
    IN [k \in 1..Len(indexed) |-> CHOOSE i \in indexed[k].index : TRUE]

\* C9: the coalesced summary lists the parts by ascending summary_index,
\* whatever the arrival order of the done events and the deltas.
C9_PartsByAscendingIndex ==
    pc = "returned" =>
        \A k, l \in 1..Len(CoalescedIndices) :
            k < l => CoalescedIndices[k] <= CoalescedIndices[l]

\* The statement of C9 for the urllib adapter alone.
C9_PartsByAscendingIndexUrllib ==
    provider = "openai_urllib" => C9_PartsByAscendingIndex

IsDoneFor(event, i) ==
    /\ event.type = "response.reasoning_summary_part.done"
    /\ Has(event, "summary_index")
    /\ event.summary_index = i

\* The positions of the done events received for summary_index i.
DonesFor(i) == {k \in 1..Len(events) : IsDoneFor(events[k], i)}

\* The text of the last done event received for summary_index i.
LastDoneText(i) ==
    events[CHOOSE k \in DonesFor(i) : \A l \in DonesFor(i) : l <= k].part.text

RECURSIVE SummaryDeltasFor(_, _)
\* The concatenation, in arrival order, of the summary deltas received for i.
SummaryDeltasFor(evs, i) ==
    IF evs = <<>> THEN ""
    ELSE (IF /\ Head(evs).type = "response.reasoning_summary_text.delta"
             /\ Head(evs).summary_index = i
          THEN Head(evs).delta ELSE "")
         \o SummaryDeltasFor(Tail(evs), i)

\* C10: each summary_index contributes one part and never two, also when
\* several done events arrive for it: its done text when a done text that is
\* not empty was received, and the concatenation of its deltas, in arrival
\* order, when no done event was received.
C10_OnePartPerIndex ==
    pc = "returned" =>
        \A i \in SummaryIndices :
            LET mine == SelectSeq(Coalesced, LAMBDA part : part.index = {i})
            IN /\ Len(mine) <= 1
               /\ DonesFor(i) # {} /\ LastDoneText(i) # "" =>
                     Len(mine) = 1 /\ mine[1].text = LastDoneText(i)
               /\ DonesFor(i) = {} /\ SummaryDeltasFor(events, i) # "" =>
                     Len(mine) = 1 /\ mine[1].text = SummaryDeltasFor(events, i)

\* The statement of C10 for the urllib adapter alone.
C10_OnePartPerIndexUrllib ==
    provider = "openai_urllib" => C10_OnePartPerIndex

\* ------------------------------------------------- extractor uniformity

\* The positions of the content_block_start events for index i.
StartsFor(evs, i) == {k \in 1..Len(evs) : IsBlockStart(evs[k], i)}

\* The delta type that fills a block of a given type.
DeltaTypeOf(block_type) ==
    IF block_type = "text" THEN "text_delta" ELSE "thinking_delta"

\* The Anthropic events are a chunking of a response: its blocks are those of
\* the indices 0..n-1, each opened by one start that declares an empty text or
\* thinking block, and filled by deltas of its own type that follow the start.
AnthropicChunking(evs) ==
    LET T == Touched(evs)
    IN /\ T = 0..(Cardinality(T) - 1)
       /\ \A i \in T :
             /\ Cardinality(StartsFor(evs, i)) = 1
             /\ LET k0 == LastStart(evs, i)
                    block == evs[k0].data.content_block
                IN /\ block \in {[type |-> "text", text |-> ""],
                                 [type |-> "thinking", thinking |-> ""]}
                   /\ \A k \in 1..Len(evs) :
                         IsBlockDelta(evs[k], i) =>
                             /\ k > k0
                             /\ evs[k].data.delta.type = DeltaTypeOf(block.type)

\* The non-streaming response an Anthropic chunking is the stream of: block i
\* has the type its start declared and the text its deltas spell.
AnthropicStreamedResponse(evs) ==
    LET n == Cardinality(Touched(evs))
        Block(i) ==
            LET t == evs[LastStart(evs, i)].data.content_block.type
            IN IF t = "text"
               THEN [type |-> "text", text |-> DeltasFrom(evs, 1, i, "text")]
               ELSE [type |-> "thinking",
                     thinking |-> DeltasFrom(evs, 1, i, "thinking")]
    IN [id |-> "msg_1", role |-> "assistant",
        content |-> [k \in 1..n |-> Block(k - 1)]]

RECURSIVE ChatContentOf(_)
\* The text a chat-completion stream spells: the content strings of its
\* chunks, in arrival order.
ChatContentOf(evs) ==
    IF evs = <<>> THEN ""
    ELSE (IF Has(Head(evs), "choices")
          THEN Join(ChatDeltas(Head(evs).choices, "content", FALSE)) ELSE "")
         \o ChatContentOf(Tail(evs))

\* The non-streaming chat completion a Grok or Fireworks stream is the
\* chunking of: one choice whose message holds the whole text.
ChatStreamedResponse(evs) ==
    [id |-> "c1", object |-> "chat.completion",
     choices |-> <<[index |-> 0,
                    message |-> [role |-> "assistant",
                                 content |-> ChatContentOf(evs)],
                    finish_reason |-> "stop"]>>]

\* C11: when the stream is a chunking of a response, extract_output_text on
\* the reconstructed payload returns the text extract_output_text returns on
\* that response as a non-streaming payload (Anthropic, Grok, Fireworks).
C11_ExtractorUniformity ==
    pc = "done" =>
        /\ provider = "anthropic" /\ AnthropicChunking(events) =>
              /\ output_text = AnthropicExtractOutputText(AnthropicStreamedResponse(events))
              /\ AnthropicExtractOutputText(response_payload) = output_text
        /\ provider \in {"grok", "fireworks"} =>
              /\ output_text = ChatExtractOutputText(ChatStreamedResponse(events))
              /\ ChatExtractOutputText(response_payload) = output_text

\* C11 witness: a Grok stream split the text "ab" into the chunks "a" and "b"
\* and both extractions give "ab".
C11_Witness ==
    /\ pc = "done"
    /\ provider = "grok"
    /\ Len(events) = 3
    /\ events[1] = ContentChunk([content |-> "a"], None)
    /\ events[2] = ContentChunk([content |-> "b"], None)
    /\ events[3] = ContentChunk(EmptyDict, "stop")
    /\ ChatExtractOutputText(ChatStreamedResponse(events)) = "ab"
    /\ output_text = "ab"

\* ------------------------------------------------- extraction from a payload

RECURSIVE Flatten(_)
\* The concatenation of a sequence of sequences.
Flatten(ss) == IF ss = <<>> THEN <<>> ELSE Head(ss) \o Flatten(Tail(ss))

\* The texts of the text-typed parts of a payload, in document order: the
\* output_text parts of the message items (OpenAI), the text blocks of the
\* content (Anthropic), the contents of the choices (Grok, Fireworks).
TextParts(p, payload) ==
    IF p = "openai"
    THEN LET messages == SelectSeq(payload.output, LAMBDA item : item.type = "message")
             texts(item) ==
                 LET parts == SelectSeq(item.content,
                                        LAMBDA part : part.type = "output_text")
                 IN [k \in 1..Len(parts) |-> parts[k].text]
         IN Flatten([k \in 1..Len(messages) |-> texts(messages[k])])
    ELSE IF p = "anthropic"
    THEN LET blocks == SelectSeq(payload.content, LAMBDA block : block.type = "text")
         IN [k \in 1..Len(blocks) |-> blocks[k].text]
    ELSE LET choices == SelectSeq(payload.choices,
                                  LAMBDA choice : Has(choice.message, "content"))
         IN [k \in 1..Len(choices) |-> choices[k].message.content]

\* C12: extract_output_text returns the concatenation, in document order, of
\* all the text-typed parts of the payload and nothing else: none is omitted
\* and nothing is inserted between two of them.
C12_ExtractIsTheConcatenation ==
    pc = "extracted" =>
        output_text = Join(TextParts(provider, response_payload))

\* The statement of C12 for the Anthropic extractor alone.
C12_ExtractIsTheConcatenationAnthropic ==
    provider = "anthropic" => C12_ExtractIsTheConcatenation

\* The statement of C12 for the payloads with at most one text-typed part.
C12_ExtractOfOnePart ==
    Len(TextParts(provider, response_payload)) <= 1 => C12_ExtractIsTheConcatenation

\* ------------------------------------------------------- fallback policy

\* The run of the runner has its output_text.
RunFinished ==
    \/ provider = "openai" /\ pc = "done"
    \/ provider \in {"grok", "fireworks"} /\ pc = "finished"

\* The text structured extraction yields from the returned payload.
Structured ==
    IF provider = "openai" THEN OpenAIExtractOutputText(response_payload)
    ELSE ChatExtractOutputText(response_payload)

\* C13: in a streaming run, when structured extraction from the returned
\* payload is empty and text deltas were delivered to the callback, the run's
\* output_text is their concatenation in arrival order (also when the stream
\* closed without a terminal event and the payload is {}); when structured
\* extraction is not empty the run's output_text is its result.
C13_FallbackPolicy ==
    RunFinished =>
        /\ Structured = "" /\ streamed_chunks # <<>> =>
              output_text = Join(streamed_chunks)
        /\ Structured # "" => output_text = Structured

\* C13 witness: an OpenAI stream delivered "a" and "b" and closed without a
\* completed event; the payload is {} and the run's text is "ab".
C13_Witness ==
    /\ provider = "openai"
    /\ pc = "done"
    /\ Len(events) = 2
    /\ \A k \in 1..2 : IsTextDelta(events[k])
    /\ response_payload = EmptyDict
    /\ streamed_chunks = <<"a", "b">>
    /\ output_text = "ab"

\* ---------------------------------------------------------------- costs

\* compute_cost_breakdown returned a breakdown.
Priced == pc = "returned" /\ provider = "costs" /\ result # NoCost

\* The token count of a figure of the call's TokenBreakdown.
TokensOf(k) == args.tokens[k].int

\* reasoning_tokens of the call, 0 when it is None or no int.
ReasoningOf == IF IsInt(args.tokens, "reasoning_tokens") THEN TokensOf("reasoning_tokens") ELSE 0

\* C14: with output_includes_reasoning the output bucket is priced on
\* max(output_tokens - reasoning_tokens, 0) and the reasoning bucket on
\* reasoning_tokens, both at the output rate, so that for
\* 0 <= reasoning <= output the two buckets together bill output_tokens and
\* the output bucket is never negative; without the flag the output bucket is
\* priced on output_tokens; total_cost is the sum of the three buckets.
C14_ReasoningOutputExclusive ==
    Priced =>
        LET rate == args.price_schedule.output.int
            out == TokensOf("output_tokens")
        IN /\ result.reasoning_cost = ReasoningOf * rate
           /\ result.input_cost = TokensOf("input_tokens") * args.price_schedule.input.int
           /\ args.output_includes_reasoning =>
                 /\ result.output_cost =
                       (IF out - ReasoningOf > 0 THEN out - ReasoningOf ELSE 0) * rate
                 /\ result.output_cost >= 0
                 /\ ReasoningOf <= out =>
                       result.reasoning_cost + result.output_cost = out * rate
           /\ ~args.output_includes_reasoning => result.output_cost = out * rate
           /\ result.total_cost =
                 result.input_cost + result.reasoning_cost + result.output_cost

\* C14 witness: 3 output tokens of which 2 are reasoning tokens, priced with
\* the flag set: 2 tokens in the reasoning bucket, 1 in the output bucket.
C14_Witness ==
    /\ Priced
    /\ args.output_includes_reasoning
    /\ args.tokens = [input_tokens |-> IntVal(1), reasoning_tokens |-> IntVal(2),
                      output_tokens |-> IntVal(3)]
    /\ args.price_schedule.output = IntVal(800)
    /\ result.reasoning_cost = 1600
    /\ result.output_cost = 800

\* The token figures the cost of the call is computed from: the TokenBreakdown
\* passed to compute_cost_breakdown, or the one of the payload's usage block.
CallTokens ==
    IF provider = "costs" THEN args.tokens
    ELSE ExtractUsageBreakdown(provider, response_payload)

\* The price schedule of the call, NoSchedule when the catalog has none.
CallSchedule ==
    IF provider = "costs" THEN args.price_schedule
    ELSE PriceScheduleForModel(provider, args.model)

\* The usage block, a required token figure or a rate of the call is missing.
UsageMissing ==
    \/ CallTokens = NoBreakdown
    \/ ~IsInt(CallTokens, "input_tokens")
    \/ ~IsInt(CallTokens, "output_tokens")
    \/ CallSchedule = NoSchedule
    \/ ~IsInt(CallSchedule, "input")
    \/ ~IsInt(CallSchedule, "output")

\* C15: compute_cost_breakdown and the adapters' calculate_cost_breakdown
\* return None whenever input_tokens or output_tokens is absent or no int, or
\* the usage block or the price schedule is missing; what they return
\* otherwise is a whole breakdown of four costs, and the call returns.
C15_MissingUsageYieldsNoCost ==
    pc = "returned" =>
        /\ UsageMissing => result = NoCost
        /\ result # NoCost =>
              /\ ~UsageMissing
              /\ DOMAIN result = {"input_cost", "reasoning_cost", "output_cost",
                                  "total_cost"}

\* C15 witness: an OpenAI payload whose usage has output_tokens and no
\* input_tokens, for a model of the price catalog: no cost.
C15_Witness ==
    /\ pc = "returned"
    /\ provider = "openai"
    /\ args.model = "o3-2025-04-16"
    /\ response_payload = [id |-> "r1", usage |-> [output_tokens |-> IntVal(2)]]
    /\ result = NoCost

\* A token figure of the call is None: the provider sent none, or no int.
FigureAbsent(k) == CallTokens # NoBreakdown /\ ~IsInt(CallTokens, k)

\* The values the usage block holds for a figure, under the keys the
\* adapters read it from.
Sent(usage, k) ==
    LET keys == IF k = "input_tokens" THEN {"prompt_tokens", "input_tokens"}
                ELSE IF k = "output_tokens" THEN {"completion_tokens", "output_tokens"}
                ELSE {}
        details == {"completion_tokens_details", "output_tokens_details"}
    IN IF k = "reasoning_tokens"
       THEN {usage[d].reasoning_tokens :
                d \in {x \in details \cap DOMAIN usage : Has(usage[x], "reasoning_tokens")}}
       ELSE {usage[x] : x \in keys \cap DOMAIN usage}

\* C16: extract_usage_breakdown returns None when there is no usage block
\* and otherwise reports each of input, reasoning and output tokens as the
\* int the provider sent or as None, never as a zero the provider did not
\* send, and the cost breakdown computed from it has no zero-valued bucket
\* for a figure that is None.
C16_NoFabricatedZero ==
    pc = "returned" =>
        /\ provider \in {"openai", "grok", "fireworks"} =>
              IF Has(response_payload, "usage")
              THEN /\ CallTokens # NoBreakdown
                   /\ \A k \in DOMAIN CallTokens :
                         /\ IsInt(CallTokens, k)
                         /\ CallTokens[k] \in Sent(response_payload.usage, k)
              ELSE CallTokens = NoBreakdown
        /\ result # NoCost =>
              /\ FigureAbsent("input_tokens") => ~Has(result, "input_cost")
              /\ FigureAbsent("reasoning_tokens") => ~Has(result, "reasoning_cost")
              /\ FigureAbsent("output_tokens") => ~Has(result, "output_cost")

\* The statement of C16 for the input and the output figure alone.
C16_NoFabricatedZeroInputOutput ==
    pc = "returned" =>
        /\ provider \in {"openai", "grok", "fireworks"} =>
              IF Has(response_payload, "usage")
              THEN /\ CallTokens # NoBreakdown
                   /\ \A k \in DOMAIN CallTokens :
                         /\ IsInt(CallTokens, k)
                         /\ CallTokens[k] \in Sent(response_payload.usage, k)
              ELSE CallTokens = NoBreakdown
        /\ result # NoCost =>
              /\ FigureAbsent("input_tokens") => ~Has(result, "input_cost")
              /\ FigureAbsent("output_tokens") => ~Has(result, "output_cost")

\* ------------------------------------------------------------ C17

\* A call of the builder has returned a payload.
Built == pc = "returned" /\ Has(result, "payload")

\* The token ceiling of a returned payload, as the set of its values
CeilingOf(payload) ==
    IF Has(payload, "max_output_tokens") THEN {payload.max_output_tokens}
    ELSE IF Has(payload, "max_tokens") THEN {payload.max_tokens}
    ELSE {}

\* The catalog entry the model names, by alias or canonical id
CatalogId == IF provider = "fireworks" /\ args.model \in DOMAIN CanonicalModels
             THEN CanonicalModels[args.model] ELSE args.model

\* C17: a builder called without max_output_tokens for a model of its
\* provider's catalog (for Fireworks named by alias or by canonical id)
\* returns a payload whose token ceiling is the catalog default exactly, and
\* a builder called with max_output_tokens returns only payloads whose token
\* ceiling is that value.
C17_BuilderDefaults ==
    Built =>
        /\ ~Has(args, "max_output_tokens")
           /\ CatalogId \in DOMAIN ModelDefaults(provider)
           => CeilingOf(result.payload)
                = {ModelDefaults(provider)[CatalogId].max_output_tokens}
        /\ Has(args, "max_output_tokens")
           => CeilingOf(result.payload) = {args.max_output_tokens}

\* A Fireworks payload built for an alias with the ceiling omitted
C17_Witness ==
    /\ Built /\ provider = "fireworks"
    /\ args.model = "qwen3-vl-235b-thinking"
    /\ ~Has(args, "max_output_tokens")
    /\ result.payload.max_tokens = 38912

\* ------------------------------------------------------------ C18

\* The call under way is a call of run_anthropic_puzzle.
InRun == Has(args, "dry_run")

\* The arguments build_messages_request is called with
BuildArgs == IF InRun THEN WithDefaultThinking(args) ELSE args

\* An Anthropic call whose builder is given a thinking block (the caller's or
\* the default one) together with temperature or top_k, past the builder
ConflictingCall ==
    /\ provider = "anthropic"
    /\ pc \notin {"build", "run"}
    /\ Has(BuildArgs, "thinking")
    /\ Has(BuildArgs, "temperature") \/ Has(BuildArgs, "top_k")

IncompatibleMessage == "Anthropic thinking is incompatible with temperature or top_k"

\* C18 as stated: an Anthropic request with a thinking block together with
\* temperature or top_k raises the error that names the conflicting fields,
\* and in run_anthropic_puzzle nothing has been recorded or sent.
C18_RejectedNamingFields ==
    ConflictingCall =>
        /\ result = RaisedValueError(IncompatibleMessage)
        /\ effects = <<>>

\* The checks that come before the incompatibility check have passed: the
\* token ceiling is known and the run is not a debug_sse run without stream.
EarlierChecksPass ==
    /\ EffectiveCeiling("anthropic", args.model, args) # {}
    /\ InRun => ~(args.debug_sse /\ ~args.stream)

\* C18: an Anthropic request with a thinking block (the caller's or the
\* default one of a reasoning model) together with temperature or top_k
\* raises a ValueError and returns no payload, and in run_anthropic_puzzle
\* nothing is recorded and nothing is sent; the error is the one naming
\* thinking, temperature and top_k whenever the checks that come before it
\* pass (the token ceiling is known, debug_sse has stream); and no run that
\* raised has recorded or sent a request.
C18_RejectedPreFlight ==
    /\ ConflictingCall =>
        /\ Has(result, "raised")
        /\ effects = <<>>
        /\ pc = "raised"
        /\ EarlierChecksPass => result = RaisedValueError(IncompatibleMessage)
    /\ Has(result, "raised") => effects = <<>>

\* A run for the reasoning model with no thinking argument and a temperature:
\* the default thinking block is rejected.
C18_Witness ==
    /\ InRun /\ ConflictingCall
    /\ ~Has(args, "thinking") /\ Has(args, "temperature")
    /\ result = RaisedValueError(IncompatibleMessage)
    /\ effects = <<>>

\* ------------------------------------------------------------ C19

\* build_messages_request has been called and has returned or raised.
MessagesRequestBuilt ==
    /\ provider = "anthropic"
    /\ pc \notin {"build", "run"}
    /\ InRun => ~(args.debug_sse /\ ~args.stream)

\* A thinking block of type 'enabled' whose budget_tokens is an integer with
\* 0 < budget_tokens < ceiling
ValidThinking(thinking, ceiling) ==
    /\ Has(thinking, "type") /\ thinking.type = "enabled"
    /\ Has(thinking, "budget_tokens")
    /\ DOMAIN thinking.budget_tokens = {"int"}
    /\ 0 < thinking.budget_tokens.int
    /\ thinking.budget_tokens.int < ceiling

C19_WitnessRejected ==
    /\ MessagesRequestBuilt /\ ~InRun
    /\ Has(args, "max_output_tokens") /\ Has(args, "thinking")
    /\ Has(args.thinking, "budget_tokens")
    /\ args.thinking.budget_tokens = IntVal(args.max_output_tokens)
    /\ args.max_output_tokens > 0
    /\ result = RaisedValueError(
                    "Anthropic thinking.budget_tokens must be less than max_tokens")

\* ------------------------------------------------------------ C20

\* The providers whose builder requires the token ceiling: the OpenAI and
\* the Anthropic builder raise without it, the Grok and the Fireworks
\* builder leave max_tokens out of the payload.
RequiresMaxOutputTokens(p) == p \in {"openai", "anthropic"}

\* The request builder has been called and has returned or raised.
BuilderCalled ==
    /\ pc \notin {"build", "run"}
    /\ InRun => ~(args.debug_sse /\ ~args.stream)

\* The message is 'max_output_tokens must be set' followed by the provider's
\* own words.
SaysMustBeSet(message) ==
    \E rest \in {"", " for Anthropic requests",
                 " (model defaults are not yet configured)"} :
        message = "max_output_tokens must be set" \o rest

\* C20: the builder of a provider that requires the token ceiling, called
\* without max_output_tokens for a model without catalog default, raises an
\* error whose message starts with 'max_output_tokens must be set' and
\* returns no payload; and every payload such a builder returns has the token
\* ceiling.
C20_MissingCeilingRaises ==
    BuilderCalled /\ RequiresMaxOutputTokens(provider) =>
        /\ ~Has(args, "max_output_tokens")
           /\ args.model \notin DOMAIN ModelDefaults(provider)
           => /\ Has(result, "raised") /\ ~Has(result, "payload")
              /\ SaysMustBeSet(result.raised)
        /\ Has(result, "payload") => CeilingOf(result.payload) # {}

\* The OpenAI builder has raised for a model the catalog does not know.
C20_Witness ==
    /\ BuilderCalled /\ provider = "openai"
    /\ ~Has(args, "max_output_tokens")
    /\ args.model = "unknown-model"
    /\ result = RaisedValueError(
           "max_output_tokens must be set (model defaults are not yet configured)")

\* The Grok and the Fireworks builder, which do not require the ceiling,
\* have returned a payload without max_tokens.
C20_NotRequiredWithoutCeiling ==
    /\ BuilderCalled /\ ~RequiresMaxOutputTokens(provider)
    /\ Has(result, "payload") /\ CeilingOf(result.payload) = {}

\* ------------------------------------------------------------ C21

\* The send call has issued its request and acted on the answer.
Answered == pc \in {"raised", "done", "stream"} /\ Len(events) = 1

\* The answer the send call received.
Reply == events[1]

\* The message holds the status code and, after it, the response body.
CarriesStatusAndBody(message, p, reply) ==
    \E sep \in {": ", ": Error code: " \o ToString(reply.status) \o " | body="} :
        message = ProviderName(p) \o " API error " \o ToString(reply.status)
                  \o sep \o reply.body

Sinking == provider \in {"openai", "fireworks"} /\ Has(args, "sse_event_path")

\* The positions of effects that hold an entry of the operation op
Positions(op) == {i \in 1..Len(effects) : effects[i].op = op}

RECURSIVE SinkLines(_)
\* The lines of the sink, in the order they were written
SinkLines(log) ==
    IF log = <<>> THEN <<>>
    ELSE IF Head(log).op = "write" THEN <<Head(log).line>> \o SinkLines(Tail(log))
    ELSE SinkLines(Tail(log))

\* C22: in a streaming send of the OpenAI or Fireworks adapter with a sink
\* path, the sink holds at every moment exactly the events received so far,
\* one line each, in arrival order, also when a callback raised while a later
\* event was processed; the line of an event is written before every callback
\* called for that event; and the sink is closed exactly once, after the last
\* write, when the call has returned or raised, and not before.
C22_DebugAuditTrail ==
    Sinking /\ pc \in {"observe", "raised", "done"} =>
        /\ SinkLines(effects) = events
        /\ \A i \in 1..Len(effects) :
              effects[i].op \notin {"write", "close"} =>
                 \E j \in 1..(i - 1) :
                    effects[j] = SinkWrite(events[effects[i].event], effects[i].event)
        /\ pc = "observe" => Positions("close") = {}
        /\ pc \in {"raised", "done"} =>
              /\ Positions("close") = {Len(effects)}

\* The text callback raised while the second event was processed: the sink
\* holds both events and is closed.
C22_Witness ==
    /\ Sinking /\ pc = "raised"
    /\ Len(events) = 2
    /\ SinkLines(effects) = events
    /\ \E i \in 1..Len(effects) :
          effects[i].op = "stream_text_callback" /\ effects[i].event = 2
    /\ effects[Len(effects)] = SinkClose

\* ------------------------------------------------------------ C25

RECURSIVE EventTexts(_, _, _)
\* The strings of the field of the chunks' deltas, the empty ones left out
EventTexts(evs, field, skip_empty) ==
    IF evs = <<>> THEN <<>>
    ELSE ChatDeltas(IF Has(Head(evs), "choices") THEN Head(evs).choices ELSE <<>>,
                    field, skip_empty)
         \o EventTexts(Tail(evs), field, skip_empty)

RECURSIVE LastResponse(_)
\* The response of the last completed or failed event; {} without one
LastResponse(evs) ==
    IF evs = <<>> THEN EmptyDict
    ELSE LET event == evs[Len(evs)]
         IN IF /\ Has(event, "type")
               /\ event.type \in {"response.completed", "response.failed"}
               /\ Has(event, "response")
            THEN event.response
            ELSE LastResponse(SubSeq(evs, 1, Len(evs) - 1))

\* The payload a send call without callbacks returns for the events
PayloadOf(p, evs) ==
    IF p = "openai" THEN LastResponse(evs)
    ELSE IF p = "grok" THEN GrokReconstruct(evs)
    ELSE IF p = "anthropic" THEN AnthropicReconstruct(evs)
    ELSE FireworksReconstruct(evs, EventTexts(evs, "content", TRUE),
                              EventTexts(evs, "reasoning_content", TRUE))

\* The counts handed to progress_callback, in the order of the calls
ProgressCounts ==
    LET at == Positions("progress_callback")
    IN [i \in at |-> effects[i].value]

\* A streaming send call whose callbacks all return normally
CallbacksReturn == \A k \in DOMAIN args : args[k] # "raises"

NoBlockRestarted ==
    provider = "anthropic" =>
        \A k \in 1..Len(events) : \A j \in 1..(k - 1) : \A i \in BlockIndices :
            ~(IsBlockStart(events[k], i) /\ IsBlockDelta(events[j], i))

C25_PayloadOfEvents ==
    provider \in {"grok", "anthropic", "openai", "fireworks"} /\ pc = "done" =>
        result = Returned(PayloadOf(provider, events))

\* ------------------------------------------------------------ C26

\* A callback that raises has been called.
ObserverRaised ==
    \E i \in 1..Len(effects) :
        /\ effects[i].op \in DOMAIN args
        /\ args[effects[i].op] = "raises"

\* C26: when a progress or text callback raises while an event is processed,
\* the streaming send does not raise: it goes on with the remaining events
\* and returns the payload of its events.
C26_ThrowingObserverTolerated ==
    provider \in {"grok", "anthropic", "openai", "fireworks"}
    /\ pc \in {"observe", "raised", "done"} /\ ObserverRaised =>
        /\ pc # "raised"
        /\ ~Has(result, "raised")
        /\ pc = "done" => result = Returned(PayloadOf(provider, events))

\* What the send calls do instead: the exception of the callback leaves the
\* call at once, no further event is consumed and no payload is returned.
C26_ThrowingObserverPropagates ==
    provider \in {"grok", "anthropic", "openai", "fireworks"}
    /\ pc \in {"observe", "raised", "done"} /\ ObserverRaised =>
        /\ pc = "raised"
        /\ Has(result, "raised") /\ ~Has(result, "payload")

\* ------------------------------------------------------------------ C27

\* The records of the complete lines of a file: a JSON text that starts its
\* line and is followed by the line break.
CompleteRecords(text) ==
    {text[k].json : k \in {k \in 1..(Len(text) - 1) :
        /\ Has(text[k], "json")
        /\ text[k + 1] = Newline
        /\ (k = 1 \/ text[k - 1] = Newline)}}

\* The records a file of the store holds, complete or not
WrittenRecords(store, path) ==
    IF Has(store, path)
    THEN {store[path][k].json :
            k \in {k \in DOMAIN store[path] : Has(store[path][k], "json")}}
    ELSE {}

\* The request payloads the run has on complete lines of its requests.jsonl
RecordedRequests(run) ==
    LET path == RunPath(run, "requests.jsonl")
    IN IF Has(files, path)
       THEN {r.request : r \in {r \in CompleteRecords(files[path]) :
                                    r.run_id = run.run_id}}
       ELSE {}

\* The response records of the run, complete or not
ResponseRecords(run) ==
    {r \in WrittenRecords(files, RunPath(run, "responses.jsonl")) :
        r.run_id = run.run_id}

C27_WitnessSendRaised ==
    /\ pc = "run_puzzle"
    /\ \E i \in DOMAIN runs :
          /\ ~runs[i].debug_sse
          /\ runs[i].pc = "failed" /\ runs[i].sent # <<>>
          /\ runs[i].response = EmptyDict

\* A dry run outside debug mode returned.
C27_WitnessDryRun ==
    /\ pc = "run_puzzle"
    /\ \E i \in DOMAIN runs :
          /\ ~runs[i].debug_sse /\ runs[i].dry_run
          /\ runs[i].pc = "completed"

\* ------------------------------------------------------------------ C23

\* The results run_batch returned
ReturnedResults == result.results

\* C23: batch failure isolation. When run_batch returns from a batch it ran,
\* in any execution mode, every run has finished on its own request, and the
\* returned list holds exactly one result per spec: COMPLETED for a run that
\* returned, FAILED with the message of the exception for a run that raised.
C23_FailureIsolation ==
    (provider = "batch" /\ pc = "returned" /\ runs # <<>>) =>
        /\ Len(ReturnedResults) = Len(runs)
        /\ \A i \in DOMAIN runs :
              /\ Finished(runs[i])
              /\ runs[i].request # EmptyDict =>
                    runs[i].request = RunBuild(runs[i]).payload
              /\ \E k \in DOMAIN ReturnedResults :
                    /\ ReturnedResults[k].spec = runs[i].spec
                    /\ ReturnedResults[k].status \in {"COMPLETED", "FAILED"}
                    /\ ReturnedResults[k].status = "FAILED" <=> runs[i].pc = "failed"
                    /\ ReturnedResults[k].error = runs[i].error
              /\ \A k, l \in DOMAIN ReturnedResults :
                    (ReturnedResults[k].spec = runs[i].spec
                        /\ ReturnedResults[l].spec = runs[i].spec) => k = l

\* A batch returned in which a run failed and a later run completed.
FailedThenCompleted(mode) ==
    /\ provider = "batch" /\ pc = "returned" /\ args.mode = mode
    /\ \E i, j \in DOMAIN runs :
          /\ i < j
          /\ runs[i].spec.runner_provider = runs[j].spec.runner_provider
          /\ runs[i].pc = "failed"
          /\ runs[j].pc = "completed"

C23_Witness == FailedThenCompleted("parallel-provider")

C23_WitnessSequential == FailedThenCompleted("sequential")

C23_WitnessParallelAll == FailedThenCompleted("parallel-all")

\* ------------------------------------------------------------------ C24

\* Every line of a file is the text of one record: a JSON text starts its
\* line and nothing but the line break follows it, a line break ends a JSON
\* text.
LineAtomic(text) ==
    \A k \in DOMAIN text :
        IF Has(text[k], "json")
        THEN /\ k = 1 \/ text[k - 1] = Newline
             /\ k < Len(text) => text[k + 1] = Newline
        ELSE k > 1 /\ Has(text[k - 1], "json")

\* Every file keeps what it holds; text is only added at its end.
AppendOnly ==
    \A path \in DOMAIN files :
        /\ path \in DOMAIN files'
        /\ Len(files[path]) <= Len(files'[path])
        /\ SubSeq(files'[path], 1, Len(files[path])) = files[path]

\* C24: line-atomic concurrent persistence. In every state of a batch, under
\* every interleaving of its runs, every requests.jsonl and responses.jsonl
\* holds one complete record per line, and no step changes or removes text a
\* file already holds.
C24_LineAtomicAppendOnly ==
    /\ [](provider = "batch" => \A path \in DOMAIN files : LineAtomic(files[path]))
    /\ [][AppendOnly]_vars

\* Two runs of a parallel batch are both between the two writes of a record.
C24_Witness ==
    /\ provider = "batch" /\ args.mode = "parallel-all"
    /\ \E i, j \in DOMAIN runs :
          /\ i # j
          /\ runs[i].pc \in {"request_open", "response_open"}
          /\ runs[j].pc \in {"request_open", "response_open"}

\* ------------------------------------------------------------------ C28

\* C28: parallel-by-provider mode runs one model at a time per provider. Of
\* two runs of one runner_provider never both are in flight, and the later in
\* the list has not started before the earlier finished.
C28_OneAtATimePerProvider ==
    (provider = "batch" /\ args.mode = "parallel-provider") =>
        \A i, j \in DOMAIN runs :
            (i < j /\ runs[i].spec.runner_provider = runs[j].spec.runner_provider)
                => /\ ~(InFlight(runs[i]) /\ InFlight(runs[j]))
                   /\ runs[j].pc # "queued" => Finished(runs[i])

\* In parallel-by-provider mode the second run of a provider is in flight
\* after the first finished, while a run of another provider is in flight.
C28_Witness ==
    /\ provider = "batch" /\ args.mode = "parallel-provider"
    /\ \E i, j, k \in DOMAIN runs :
          /\ i < j
          /\ runs[i].spec.runner_provider = runs[j].spec.runner_provider
          /\ runs[k].spec.runner_provider # runs[j].spec.runner_provider
          /\ Finished(runs[i]) /\ InFlight(runs[j]) /\ InFlight(runs[k])

\* ------------------------------------------------------------------ C29

\* The store held, when run_batch was called, a response record of the spec
\* for the puzzle name and, when a version is given, for that version.
HadResponse(spec) ==
    \E r \in WrittenRecords(files,
                            StorePath(spec.provider, spec.model, "responses.jsonl")) :
        /\ r.run_id = "earlier"
        /\ r.puzzle_name = args.puzzle_name
        /\ args.puzzle_version # None => r.puzzle_version = args.puzzle_version

\* The runs of a spec
RunsOf(spec) == {i \in DOMAIN runs : runs[i].spec = spec}

\* The results collected for a spec
ResultsOf(spec) == {k \in DOMAIN results : results[k].spec = spec}

\* C29: resume mode. Once run_batch is past its filter: with dry_run there is
\* no run and the returned list is empty; with resume a spec that had a stored
\* response record for the puzzle has no run and no result, and every other
\* spec has exactly one run, which has finished with one result when run_batch
\* returns.
C29_ResumeSkipsStored ==
    (provider = "batch" /\ pc # "batch") =>
        /\ args.dry_run => runs = <<>> /\ results = <<>> /\ ReturnedResults = <<>>
        /\ (args.resume /\ ~args.dry_run) =>
              \A spec \in Range(args.specs) :
                  IF HadResponse(spec)
                  THEN RunsOf(spec) = {} /\ ResultsOf(spec) = {}
                  ELSE /\ Cardinality(RunsOf(spec)) = 1
                       /\ \A i \in RunsOf(spec) : Len(runs[i].sent) <= 1
                       /\ pc = "returned" =>
                             /\ \A i \in RunsOf(spec) : Finished(runs[i])
                             /\ Cardinality(ResultsOf(spec)) = 1
                             /\ ReturnedResults = results

\* A resumed batch returned: it skipped a spec with a stored response and ran
\* a spec without one.
C29_Witness ==
    /\ provider = "batch" /\ pc = "returned"
    /\ args.resume /\ ~args.dry_run
    /\ \E s1, s2 \in Range(args.specs) :
          /\ HadResponse(s1) /\ RunsOf(s1) = {}
          /\ ~HadResponse(s2) /\ RunsOf(s2) # {}

\* A dry run of a batch returned.
C29_WitnessDryRun ==
    /\ provider = "batch" /\ pc = "returned" /\ args.dry_run /\ ~args.resume

\* A resumed batch ran a spec whose stored response is of another version.
C29_WitnessOtherVersion ==
    /\ provider = "batch" /\ pc = "returned"
    /\ args.resume /\ ~args.dry_run /\ args.puzzle_version = "1.0"
    /\ \E spec \in Range(args.specs) :
          /\ RunsOf(spec) # {}
          /\ \E r \in WrittenRecords(files, StorePath(spec.provider, spec.model,
                                                      "responses.jsonl")) :
                r.run_id = "earlier" /\ r.puzzle_name = args.puzzle_name

\* ------------------------------------------------------------------ C30

\* The stream was read to its end
ReadToEnd == wire # <<>> /\ wire[Len(wire)] = EndOfStream

\* The data group the end of the stream closes (its lines are 0 when no data
\* line is pending)
PendingAtEnd == GroupAt(wire, Len(wire))

\* C30: no received event is dropped at stream closure. The end of the stream
\* is read once, as the last line, and the parser has then terminated. When
\* data lines were pending there and they are not the sentinel, the parser
\* treated them as a blank line would have: a JSON object is yielded as the
\* last event, after one event for every earlier group, and anything else
\* raises the parse error.
C30_PendingEventYieldedAtEOF ==
    /\ \A k \in 1..(Len(wire) - 1) : wire[k] # EndOfStream
    /\ ReadToEnd =>
          /\ pc \in {"exhausted", "done", "raised"}
          /\ data_lines = <<>> \/ provider = "anthropic"
          /\ (PendingAtEnd.lines > 0 /\ ~IsSentinel(PendingAtEnd)) =>
                IF JsonLoads(PendingAtEnd.data).valid
                   /\ JsonLoads(PendingAtEnd.data).is_dict
                THEN /\ pc \in {"exhausted", "done"}
                     /\ Len(events) = Len(Groups(wire))
                     /\ events[Len(events)] = EventOf(provider, PendingAtEnd)
                ELSE pc = "raised"
          /\ (PendingAtEnd.lines = 0
                \/ (IsSentinel(PendingAtEnd) /\ provider # "anthropic")) =>
                /\ pc \in {"exhausted", "done"}
                /\ Len(events) = Len(Groups(wire)) - (IF PendingAtEnd.lines = 0 THEN 0 ELSE 1)

\* The stream ended after a data line without a blank line: the Grok parser
\* yielded its event and ended.
C30_Witness ==
    /\ provider = "grok"
    /\ ReadToEnd
    /\ Len(wire) = 3
    /\ IsBlank(wire[1])
    /\ PendingAtEnd.lines = 1
    /\ PendingAtEnd.data = DocId
    /\ events = <<[id |-> "c2"]>>
    /\ pc \in {"exhausted", "done"}

\* The same for the Anthropic parser, with the event: value of the group.
C30_WitnessAnthropic ==
    /\ provider = "anthropic"
    /\ ReadToEnd
    /\ Len(wire) = 3
    /\ PendingAtEnd.lines = 1
    /\ PendingAtEnd.event = "ping"
    /\ events = <<[event |-> "ping", data |-> [id |-> "c2"]]>>
    /\ pc \in {"exhausted", "done"}

====
